---- MODULE Spec2Model ----
(***************************************************************************)
(* duoload: the paginated transfer pipeline                                *)
(* (TransferProcessorWithBuilder::process in src/transfer/processor.rs)    *)
(* with its collaborators: the DuplicateHandler, the page-limit policy,    *)
(* the record source (fetch_page / convert_to_vocabulary_cards) and the    *)
(* output sinks (JsonOutputBuilder, AnkiPackageBuilder).                   *)
(*                                                                         *)
(* One run of process() is a state machine over the program counter pc:    *)
(*   "loop"  -> top of the loop body (page_count += 1, should_continue)    *)
(*   "sleep" -> the one second pause before every fetch after the first    *)
(*   "fetch" -> client.fetch_page + convert_to_vocabulary_cards            *)
(*   "cards" -> the for loop over the cards of the fetched page            *)
(*   "write" -> write_output()                                             *)
(*   "done"  -> process() has returned (result holds Ok or the error)      *)
(***************************************************************************)
EXTENDS Integers, Sequences, FiniteSets, TLC

\* ---------------------------------------------------------------- bounds
\* The source holds at most MaxPages pages: page MaxPages reports no next page.
MaxPages == 2
\* A page carries at most MaxCards cards.
MaxCards == 2

\* ------------------------------------------------------------ Option<T>
None == <<>>
Some(x) == <<x>>

\* ------------------------------------------------------- small utilities
SeqsUpTo(S, n) == UNION {[1..k -> S] : k \in 0..n}

RECURSIVE Flatten(_)
Flatten(ss) == IF ss = <<>> THEN <<>> ELSE Head(ss) \o Flatten(Tail(ss))

Range(s) == {s[i] : i \in 1..Len(s)}

IsPrefix(s, t) == Len(s) <= Len(t) /\ SubSeq(t, 1, Len(s)) = s

\* ------------------------------------------------- inputs of the model
\* The cards the remote deck may hold (Card: front, back, hint, known_count).
SourceCards ==
    { [front |-> "hello", back |-> "hola",  hint |-> Some("Hello, world!"), known_count |-> 0],
      [front |-> "world", back |-> "mundo", hint |-> None,                  known_count |-> 5] }

Cursors == {None, Some("cursor1")}

\* DuocardsResponse, reduced to what process() reads: the edges and page_info.
Responses(last) ==
    { [edges |-> e, has_next_page |-> h, end_cursor |-> c] :
        e \in SeqsUpTo(SourceCards, MaxCards),
        h \in (IF last THEN {FALSE} ELSE BOOLEAN),
        c \in Cursors }

\* The DuoloadError variants a failing fetch_page returns.
FetchErrorsWrapped == {"Other"}

FetchErrors == {"DeckId", "Request", "Api", "Json"}

\* Whether an HTTP request was sent by the time fetch_page fails with the error:
\* never before validation or serialising the query failed, always when the
\* status is refused; a Request error comes from building or from sending.
FetchSent(e) ==
    IF e \in {"DeckId", "Json"} THEN {FALSE}
    ELSE IF e = "Api" THEN {TRUE}
    ELSE BOOLEAN

\* The configured page limits: none, or 0 .. MaxPages-1 pages.
PageLimits == {None} \cup {Some(n) : n \in 0..(MaxPages - 1)}

BuilderKinds == {"Json", "Anki"}
OutputPaths == {"-", "out.file"}

\* ------------------------------------------- deck identifier validator
\* A deck identifier is a sequence of characters; decoded data is a sequence of
\* bytes (0..255), and so is the text checked after UTF-8 validation.
B64Alphabet ==
    <<"A", "B", "C", "D", "E", "F", "G", "H", "I", "J", "K", "L", "M", "N", "O", "P", "Q", "R", "S", "T", "U", "V", "W", "X", "Y", "Z", "a", "b", "c", "d", "e", "f", "g", "h", "i", "j", "k", "l", "m", "n", "o", "p", "q", "r", "s", "t", "u", "v", "w", "x", "y", "z", "0", "1", "2", "3", "4", "5", "6", "7", "8", "9", "+", "/">>

B64Value(ch) ==
    IF \E i \in 1..64 : B64Alphabet[i] = ch
    THEN (CHOOSE i \in 1..64 : B64Alphabet[i] = ch) - 1
    ELSE -1

Pow2(n) == IF n = 0 THEN 1 ELSE IF n = 2 THEN 4 ELSE IF n = 4 THEN 16
           ELSE IF n = 6 THEN 64 ELSE IF n = 8 THEN 256 ELSE 1024

\* BASE64.decode (the STANDARD engine): canonical padding is required, every
\* symbol must be of the alphabet and the unused bits of the last symbol zero.
Base64Decode(s) ==
    LET n    == Len(s)
        pad  == IF n >= 1 /\ s[n] = "="
                THEN (IF n >= 2 /\ s[n - 1] = "=" THEN 2 ELSE 1)
                ELSE 0
        body == SubSeq(s, 1, n - pad)
        sext == [i \in 1..Len(body) |-> B64Value(body[i])]
        cnt  == (Len(body) * 6) \div 8
        byte(k) ==
            LET off == (k - 1) * 8
                i   == (off \div 6) + 1
                r   == off % 6
            IN  ((sext[i] * 64 + sext[i + 1]) \div Pow2(4 - r)) % 256
    IN  IF n % 4 # 0 THEN None
        ELSE IF \E i \in 1..Len(body) : sext[i] < 0 THEN None
        ELSE IF pad = 2 /\ sext[Len(body)] % 16 # 0 THEN None
        ELSE IF pad = 1 /\ sext[Len(body)] % 4 # 0 THEN None
        ELSE Some([k \in 1..cnt |-> byte(k)])

\* BASE64.encode, as the tests use it to build identifiers
Base64Encode(bytes) ==
    LET n   == Len(bytes)
        cnt == (n * 8 + 5) \div 6
        at(i) == IF i <= n THEN bytes[i] ELSE 0
        sextet(j) ==
            LET off == (j - 1) * 6
                i   == (off \div 8) + 1
                r   == off % 8
            IN  ((at(i) * 256 + at(i + 1)) \div Pow2(10 - r)) % 64
        padding == IF n % 3 = 1 THEN <<"=", "=">> ELSE IF n % 3 = 2 THEN <<"=">> ELSE <<>>
    IN  [j \in 1..cnt |-> B64Alphabet[sextet(j) + 1]] \o padding

\* String::from_utf8: is the byte sequence well-formed UTF-8
IsContinuation(x) == x >= 128 /\ x <= 191

RECURSIVE IsUtf8(_)
IsUtf8(bs) ==
    IF bs = <<>> THEN TRUE
    ELSE LET h == bs[1]
             n == Len(bs)
         IN  IF h < 128 THEN IsUtf8(Tail(bs))
             ELSE IF h >= 194 /\ h <= 223
             THEN n >= 2 /\ IsContinuation(bs[2]) /\ IsUtf8(SubSeq(bs, 3, n))
             ELSE IF h >= 224 /\ h <= 239
             THEN /\ n >= 3
                  /\ IsContinuation(bs[2]) /\ IsContinuation(bs[3])
                  /\ (h = 224 => bs[2] >= 160)
                  /\ (h = 237 => bs[2] <= 159)
                  /\ IsUtf8(SubSeq(bs, 4, n))
             ELSE IF h >= 240 /\ h <= 244
             THEN /\ n >= 4
                  /\ IsContinuation(bs[2]) /\ IsContinuation(bs[3]) /\ IsContinuation(bs[4])
                  /\ (h = 240 => bs[2] >= 144)
                  /\ (h = 244 => bs[2] <= 143)
                  /\ IsUtf8(SubSeq(bs, 5, n))
             ELSE FALSE

\* "Deck:"
DeckPrefix == <<68, 101, 99, 107, 58>>

\* str::starts_with
StartsWith(t, p) == Len(t) >= Len(p) /\ SubSeq(t, 1, Len(p)) = p

\* str::strip_prefix (unwrapped): the prefix removed once
StripPrefixOnce(t, p) ==
    IF StartsWith(t, p) THEN SubSeq(t, Len(p) + 1, Len(t)) ELSE t

\* str::trim_start_matches: the prefix removed as often as it repeats
RECURSIVE TrimStartMatches(_, _)
TrimStartMatches(t, p) ==
    IF p # <<>> /\ StartsWith(t, p)
    THEN TrimStartMatches(SubSeq(t, Len(p) + 1, Len(t)), p)
    ELSE t

\* The value of a hexadecimal digit, -1 for any other byte
HexValue(x) ==
    IF x >= 48 /\ x <= 57 THEN x - 48
    ELSE IF x >= 97 /\ x <= 102 THEN x - 87
    ELSE IF x >= 65 /\ x <= 70 THEN x - 55
    ELSE -1

HyphenPositions == {9, 14, 19, 24}

\* The 8-4-4-4-12 form: its 32 hexadecimal digits, or None
ParseHyphenated(t) ==
    IF /\ Len(t) = 36
       /\ \A i \in 1..36 : IF i \in HyphenPositions THEN t[i] = 45 ELSE HexValue(t[i]) >= 0
    THEN LET digits == SelectSeq(t, LAMBDA x : x # 45)
         IN  Some([i \in 1..32 |-> HexValue(digits[i])])
    ELSE None

\* "urn:uuid:"
UrnPrefix == <<117, 114, 110, 58, 117, 117, 105, 100, 58>>

\* Uuid::parse_str: simple (32 digits), hyphenated, braced or URN form
ParseUuid(t) ==
    IF Len(t) = 32
    THEN IF \A i \in 1..32 : HexValue(t[i]) >= 0
         THEN Some([i \in 1..32 |-> HexValue(t[i])])
         ELSE None
    ELSE IF Len(t) = 36 THEN ParseHyphenated(t)
    ELSE IF Len(t) = 38 /\ t[1] = 123 /\ t[38] = 125 THEN ParseHyphenated(SubSeq(t, 2, 37))
    ELSE IF Len(t) = 45 /\ StartsWith(t, UrnPrefix) THEN ParseHyphenated(SubSeq(t, 10, 45))
    ELSE None

\* Uuid::get_version: the version nibble; uuid::Version::Random is 4
UuidVersion(uuid) == uuid[13]

\* The checks of validate_deck_id on an extracted UUID text
CheckUuid(uuid_str) ==
    LET uuid == ParseUuid(uuid_str)
    IN  IF uuid = None THEN "InvalidUuid"
        ELSE IF UuidVersion(uuid[1]) # 4 THEN "NotUuidV4"
        ELSE "Ok"

\* validate_deck_id: "Ok" or the DeckIdError kind
ValidateDeckId(id) ==
    LET decoded == Base64Decode(id)
    IN  IF decoded = None THEN "InvalidBase64"
        ELSE IF ~IsUtf8(decoded[1]) THEN "InvalidFormat"
        ELSE IF ~StartsWith(decoded[1], DeckPrefix) THEN "InvalidFormat"
        ELSE CheckUuid(TrimStartMatches(decoded[1], DeckPrefix))

\* DuocardsClient::validate_deck_id, the client's own copy of the validator
ClientValidateDeckId(id) ==
    LET decoded == Base64Decode(id)
    IN  IF decoded = None THEN "InvalidBase64"
        ELSE IF ~IsUtf8(decoded[1]) THEN "InvalidFormat"
        ELSE IF ~StartsWith(decoded[1], DeckPrefix) THEN "InvalidFormat"
        ELSE CheckUuid(TrimStartMatches(decoded[1], DeckPrefix))

\* The texts identifiers are built from: what stands before the UUID ...
TextPrefixes ==
    { <<>>,
      DeckPrefix,
      DeckPrefix \o DeckPrefix,
      <<100, 101, 99, 107, 58>>,
      <<68, 101, 99, 107>>,
      <<78, 111, 116, 65, 68, 101, 99, 107, 58>> }

\* 46f2b9ed-abf3-4bd8-a054-68dfa4a4203e
UuidV4Text == <<52, 54, 102, 50, 98, 57, 101, 100, 45, 97, 98, 102, 51, 45, 52, 98, 100, 56, 45, 97, 48, 53, 52, 45, 54, 56, 100, 102, 97, 52, 97, 52, 50, 48, 51, 101>>

\* 00000000-0000-1000-8000-000000000000
UuidV1Text == <<48, 48, 48, 48, 48, 48, 48, 48, 45, 48, 48, 48, 48, 45, 49, 48, 48, 48, 45, 56, 48, 48, 48, 45, 48, 48, 48, 48, 48, 48, 48, 48, 48, 48, 48, 48>>

\* ... and what stands where the UUID should: a version 4 UUID in the four
\* accepted forms and in upper case, a version 1 UUID, and texts that are no UUID.
TextRemainders ==
    { UuidV4Text,
      SelectSeq(UuidV4Text, LAMBDA x : x # 45),
      <<123>> \o UuidV4Text \o <<125>>,
      UrnPrefix \o UuidV4Text,
      <<52, 54, 70, 50, 66, 57, 69, 68, 45, 65, 66, 70, 51, 45, 52, 66, 68, 56, 45, 65, 48, 53, 52, 45, 54, 56, 68, 70, 65, 52, 65, 52, 50, 48, 51, 69>>,
      UuidV1Text,
      UuidV4Text \o <<120>>,
      <<110, 111, 116, 45, 97, 45, 117, 117, 105, 100>>,
      <<49, 50, 51>>,
      <<>> }

\* Byte sequences that are not UTF-8
BadUtf8 == { <<255, 254>>, DeckPrefix \o <<255>>, <<192, 128>>, DeckPrefix \o UuidV4Text \o <<200>> }

\* TEST_DECK_ID, the base64 of "Deck:46f2b9ed-abf3-4bd8-a054-68dfa4a4203e"
TestDeckId == Base64Encode(DeckPrefix \o UuidV4Text)

\* Character sequences that are not base64: "not-base64!", "test-deck",
\* TEST_DECK_ID without its padding, with a foreign symbol, and "QR==" whose last
\* symbol carries bits past the last byte
BadBase64 ==
    { <<"n", "o", "t", "-", "b", "a", "s", "e", "6", "4", "!">>,
      <<"t", "e", "s", "t", "-", "d", "e", "c", "k">>,
      SubSeq(TestDeckId, 1, Len(TestDeckId) - 1),
      <<"!">> \o Tail(TestDeckId),
      <<"Q", "R", "=", "=">> }

\* The identifiers validate_deck_id is applied to
DeckIdInputs ==
    {Base64Encode(p \o r) : p \in TextPrefixes, r \in TextRemainders}
        \cup {Base64Encode(bs) : bs \in BadUtf8}
        \cup BadBase64

\* ----------------------------------------------------- pure functions
\* impl From<Card> for VocabularyCard
VocabularyCardFromKnownAboveFive(card) ==
    [ word        |-> card.front,
      translation |-> card.back,
      example     |-> card.hint,
      status      |-> IF card.known_count > 5 THEN "Known"
                      ELSE IF card.known_count > 0 THEN "Learning"
                      ELSE "New" ]

VocabularyCardFrom(card) ==
    [ word        |-> card.front,
      translation |-> card.back,
      example     |-> card.hint,
      status      |-> IF card.known_count >= 5 THEN "Known"
                      ELSE IF card.known_count > 0 THEN "Learning"
                      ELSE "New" ]

\* convert_to_vocabulary_cards: the edges in order, each converted
ConvertReversed(resp) ==
    [i \in 1..Len(resp.edges) |-> VocabularyCardFrom(resp.edges[Len(resp.edges) + 1 - i])]

ConvertToVocabularyCards(resp) ==
    [i \in 1..Len(resp.edges) |-> VocabularyCardFrom(resp.edges[i])]

\* should_continue(current_page)
ShouldContinueOffByOne(limit, current_page) ==
    IF limit # None THEN current_page < limit[1] ELSE TRUE

ShouldContinueIgnoringLimit(limit, current_page) == TRUE

ShouldContinue(limit, current_page) ==
    IF limit # None THEN current_page <= limit[1] ELSE TRUE

\* DuplicateHandler::try_remember: !processed_words.insert(word)
TryRememberForgetful(pw, word) ==
    [dup |-> FALSE, processed_words |-> pw \cup {word}]

ToLowercase(word) == IF word = "Hello" THEN "hello" ELSE word

TryRememberCaseFolded(pw, word) ==
    [dup |-> ToLowercase(word) \in pw, processed_words |-> pw \cup {ToLowercase(word)}]

TryRememberNotStored(pw, word) ==
    [dup |-> word \in pw, processed_words |-> pw]

TryRemember(pw, word) ==
    [dup |-> word \in pw, processed_words |-> pw \cup {word}]

\* self.stats.duplicates += 1
StatsAfterDuplicateBoth(s) ==
    [total_cards |-> s.total_cards + 1, duplicates |-> s.duplicates + 1]

StatsAfterDuplicate(s) == [s EXCEPT !.duplicates = @ + 1]

\* if self.builder.add_note(card)? { self.stats.total_cards += 1; }
StatsAfterAddAlways(s, ret) == [s EXCEPT !.total_cards = @ + 1]

StatsAfterAdd(s, ret) ==
    IF ret = "true" THEN [s EXCEPT !.total_cards = @ + 1] ELSE s

\* The ? after add_note: Ok(_) stays in the for loop, Err(e) returns from process()
PcAfterAddIgnoringError(ret) == "cards"

PcAfterAddNextPage(ret) == IF ret \in {"true", "false"} THEN "loop" ELSE "done"

PcAfterAdd(ret) == IF ret \in {"true", "false"} THEN "cards" ELSE "done"

\* The page-limit check at the top of the loop body and the pause that follows it
PcAfterLimitCheckReturning(limit, page) ==
    IF ~ShouldContinue(limit, page) THEN "done"
    ELSE IF page > 1 THEN "sleep"
    ELSE "fetch"

PcAfterLimitCheckAlwaysPausing(limit, page) ==
    IF ~ShouldContinue(limit, page) THEN "write" ELSE "sleep"

PcAfterLimitCheck(limit, page) ==
    IF ~ShouldContinue(limit, page) THEN "write"
    ELSE IF page > 1 THEN "sleep"
    ELSE "fetch"

\* if !response.data.node.cards.page_info.has_next_page { break; }
StopAfterPageOnMissingCursor(resp) == resp.end_cursor = None

StopAfterPageIgnored(resp) == FALSE

StopAfterPage(resp) == ~resp.has_next_page

\* self.client.fetch_page(&self.deck_id, cursor)
FetchPageCall(id, c) == [op |-> "fetch_page", deck_id |-> id, cursor |-> c]

\* self.write_output()?; self.print_stats(): the summary follows a successful write
PrintStatsAlways(ret) == <<[op |-> "print_stats"]>>

PrintStats(ret) == IF ret = "Ok" THEN <<[op |-> "print_stats"]>> ELSE <<>>

\* cursor = response.data.node.cards.page_info.end_cursor
NextCursorForgotten(resp) == None

NextCursor(resp) == resp.end_cursor

\* write_output: match result { Ok(_) => Ok(()), Err(e) => Err(e) }
WriteOutputResultSwallowed(ret) == "Ok"

WriteOutputResult(ret) == ret

\* A sink (OutputBuilder): the accepted cards in order and existing_words.
NewBuilder == [cards |-> <<>>, existing_words |-> {}]

Accept(b, card) ==
    [cards |-> Append(b.cards, card),
     existing_words |-> b.existing_words \cup {card.word}]

\* b with the card of the same word replaced by card
ReplaceCard(b, card) ==
    [b EXCEPT !.cards = [i \in 1..Len(b.cards) |->
                           IF b.cards[i].word = card.word THEN card ELSE b.cards[i]]]

\* JsonOutputBuilder::add_note
JsonAddNoteKeepingLast(b, card) ==
    IF card.word \in b.existing_words
    THEN [ret |-> "false", builder |-> ReplaceCard(b, card)]
    ELSE [ret |-> "true", builder |-> Accept(b, card)]

JsonAddNote(b, card) ==
    IF card.word \in b.existing_words
    THEN [ret |-> "false", builder |-> b]
    ELSE [ret |-> "true", builder |-> Accept(b, card)]

\* AnkiPackageBuilder::add_note; note_ok: to_anki_note(&self.model) succeeded
AnkiAddNoteRecordingFirst(b, card, note_ok) ==
    IF card.word \in b.existing_words
    THEN [ret |-> "false", builder |-> b]
    ELSE IF ~note_ok
    THEN [ret |-> "Other", builder |-> [b EXCEPT !.existing_words = @ \cup {card.word}]]
    ELSE [ret |-> "true", builder |-> Accept(b, card)]

AnkiAddNote(b, card, note_ok) ==
    IF card.word \in b.existing_words
    THEN [ret |-> "false", builder |-> b]
    ELSE IF ~note_ok
    THEN [ret |-> "Other", builder |-> b]
    ELSE [ret |-> "true", builder |-> Accept(b, card)]

AddNote(kind, b, card, note_ok) ==
    IF kind = "Anki" THEN AnkiAddNote(b, card, note_ok) ELSE JsonAddNote(b, card)

Reverse(seq) == [i \in 1..Len(seq) |-> seq[Len(seq) + 1 - i]]

\* JsonOutputBuilder::write; io_ok: serde_json::to_writer_pretty succeeded
JsonWriteReversed(b, dest, io_ok) ==
    IF io_ok
    THEN [ret |-> "Ok", out |-> Some(Reverse(b.cards))]
    ELSE [ret |-> "Other", out |-> None]

JsonWrite(b, dest, io_ok) ==
    IF io_ok
    THEN [ret |-> "Ok", out |-> Some(b.cards)]
    ELSE [ret |-> "Other", out |-> None]

\* AnkiPackageBuilder::write; io_ok: deck.write_to_file succeeded
AnkiWriteAnyDestination(b, dest, io_ok) ==
    IF io_ok
    THEN [ret |-> "Ok", out |-> Some(b.cards)]
    ELSE [ret |-> "Other", out |-> None]

AnkiWrite(b, dest, io_ok) ==
    IF dest = "Writer"
    THEN [ret |-> "AnkiOutputNotSupported", out |-> None]
    ELSE IF io_ok
    THEN [ret |-> "Ok", out |-> Some(b.cards)]
    ELSE [ret |-> "Other", out |-> None]

BuilderWrite(kind, b, dest, io_ok) ==
    IF kind = "Anki" THEN AnkiWrite(b, dest, io_ok) ELSE JsonWrite(b, dest, io_ok)

\* write_output: the destination handed to builder.write
WriteDestinationAlwaysFile(path) == <<"File", path>>

\* OutputDestination::Writer(stdout) for "-", OutputDestination::File(path) otherwise
WriteDestination(path) == IF path = "-" THEN <<"Writer">> ELSE <<"File", path>>

Destination(path) == WriteDestination(path)[1]

\* ------------------------------------------------------------- state
VARIABLES
    page_limit,       \* client.page_limit(): Option<u32>
    builder_kind,     \* which OutputBuilder the processor was given
    output_path,      \* self.output_path
    initial_builder,  \* the builder handed to TransferProcessor::output
    deck_id,          \* args.deck_id / self.deck_id
    processor_built,  \* TransferProcessor::new was called
    ret,              \* what main() or a function called on its own returned, if it has
    http_requests,    \* the number of HTTP requests fetch_page sent
    trace,            \* the pauses, fetch_page calls, writes and summaries of the run, in order
    generator,        \* a JsonGenerator used on its own
    runs,             \* two processors run side by side
    env,              \* for write and for the add_note calls made on a sink directly, in
                      \* call order: did the environment let the call through (note
                      \* built, data taken by the destination)
    pc,               \* position in process()
    cursor,           \* let mut cursor: Option<String>
    page_count,       \* let mut page_count
    response,         \* the response of the current iteration, if any
    cards,            \* the cards of the page not yet visited by the for loop
    processed_words,  \* self.duplicates.processed_words
    stats,            \* self.stats: total_cards, duplicates
    builder,          \* self.builder
    result,           \* what process() returned: "Running", "Ok" or the error
    \* observers of the run (written, never read, by the actions)
    fetched,          \* the pages fetch_page returned, in order
    fetch_calls,      \* the number of fetch_page calls
    remember_log,     \* the try_remember calls: word and returned value
    add_log,          \* the add_note calls: word and returned value
    write_calls,      \* the number of builder.write calls
    write_ret,        \* what builder.write returned
    written,          \* what reached the destination
    fail_stage        \* the call whose error ended the run

vars == <<page_limit, builder_kind, output_path, initial_builder, deck_id, processor_built, ret,
          http_requests, trace, generator, runs, env, pc, cursor, page_count, response,
          cards, processed_words, stats, builder, result, fetched, fetch_calls,
          remember_log, add_log, write_calls, write_ret, written, fail_stage>>

config == <<page_limit, builder_kind, output_path, initial_builder, deck_id>>

\* What process() never touches
outside == <<processor_built, ret, env>>

\* The components that are no part of a single run of process()
elsewhere == <<generator, runs>>

\* The builders a caller may hand to TransferProcessor::output: a new one, or one
\* that already accepted a card.
InitialBuilders ==
    {NewBuilder} \cup
    {JsonAddNote(NewBuilder, VocabularyCardFrom(c)).builder : c \in {c \in SourceCards : c.front = "hello"}}

\* The identifiers of a run: TEST_DECK_ID, the base64 of "Deck:not-a-uuid", and
\* "test-deck", which is not base64
RunDeckIds ==
    { TestDeckId,
      Base64Encode(DeckPrefix \o <<110, 111, 116, 45, 97, 45, 117, 117, 105, 100>>),
      <<"t", "e", "s", "t", "-", "d", "e", "c", "k">> }

\* What the two validators return for the identifiers of a run, tabulated
ClientVerdict == [id \in RunDeckIds |-> ClientValidateDeckId(id)]

MainVerdict == [id \in RunDeckIds |-> ValidateDeckId(id)]

\* --pages as validate_page_limit lets it through: absent, or a positive number
CliPageLimits == {None} \cup {Some(n) : n \in 1..(MaxPages - 1)}

\* The output format flags of the command line, or none of them
OutputFormats == BuilderKinds \cup {"missing"}

\* No generator and no pair of processors is in use
ElsewhereAtRest ==
    /\ generator = None
    /\ runs = <<>>

\* The state in which process() starts
ProcessStart ==
    /\ builder = initial_builder
    /\ cursor = None
    /\ page_count = 0
    /\ response = None
    /\ cards = <<>>
    /\ processed_words = {}
    /\ stats = [total_cards |-> 0, duplicates |-> 0]
    /\ result = "Running"
    /\ fetched = <<>>
    /\ fetch_calls = 0
    /\ http_requests = 0
    /\ remember_log = <<>>
    /\ add_log = <<>>
    /\ write_calls = 0
    /\ write_ret = "none"
    /\ written = None
    /\ fail_stage = "none"
    /\ ret = None
    /\ env = <<>>
    /\ trace = <<>>

\* A caller's TransferProcessor::new(client, deck_id).output(builder, path), about
\* to call process()
InitLibrary ==
    /\ page_limit \in PageLimits
    /\ builder_kind \in BuilderKinds
    /\ output_path \in OutputPaths
    /\ initial_builder \in InitialBuilders
    /\ deck_id \in RunDeckIds
    /\ processor_built = TRUE
    /\ pc = "loop"
    /\ ProcessStart

\* main() after Args::parse()
InitMain ==
    /\ page_limit \in CliPageLimits
    /\ builder_kind \in OutputFormats
    /\ output_path \in OutputPaths
    /\ initial_builder = NewBuilder
    /\ deck_id \in RunDeckIds
    /\ processor_built = FALSE
    /\ pc = "main"
    /\ ProcessStart

Init == (InitLibrary \/ InitMain) /\ ElsewhereAtRest

\* ----------------------------------------------------------- actions
\* main(): the output format check and DuocardsClient::new()
MainArgsCheck ==
    /\ pc = "main"
    /\ IF builder_kind = "missing"
       THEN /\ ret' = Some("Api: Please specify either --anki-file, --json-file, or --json")
            /\ pc' = "exit"
       ELSE \E client_ok \in BOOLEAN :
              IF client_ok
              THEN /\ pc' = "validate"
                   /\ UNCHANGED ret
              ELSE /\ ret' = Some("Api: Failed to initialize client")
                   /\ pc' = "exit"
    /\ UNCHANGED <<config, elsewhere, trace, env, processor_built, cursor, page_count, response, cards,
                   processed_words, stats, builder, result, fetched, fetch_calls,
                   http_requests, remember_log, add_log, write_calls, write_ret, written,
                   fail_stage>>

\* main(): deck::validate_deck_id, then TransferProcessor::new and process()
MainValidateSkipped ==
    /\ pc = "validate"
    /\ processor_built' = TRUE
    /\ pc' = "loop"
    /\ UNCHANGED <<config, elsewhere, trace, env, ret, cursor, page_count, response, cards, processed_words, stats,
                   builder, result, fetched, fetch_calls, http_requests, remember_log,
                   add_log, write_calls, write_ret, written, fail_stage>>

MainValidate ==
    /\ pc = "validate"
    /\ IF MainVerdict[deck_id] # "Ok"
       THEN /\ ret' = Some("Api: Invalid deck ID")
            /\ pc' = "exit"
            /\ UNCHANGED processor_built
       ELSE /\ processor_built' = TRUE
            /\ pc' = "loop"
            /\ UNCHANGED ret
    /\ UNCHANGED <<config, elsewhere, trace, env, cursor, page_count, response, cards, processed_words, stats,
                   builder, result, fetched, fetch_calls, http_requests, remember_log,
                   add_log, write_calls, write_ret, written, fail_stage>>

\* Top of the loop body: page_count += 1, then the page-limit check.
LoopHead ==
    /\ pc = "loop"
    /\ page_count' = page_count + 1
    /\ pc' = PcAfterLimitCheck(page_limit, page_count + 1)
    /\ UNCHANGED <<config, elsewhere, trace, outside, http_requests, cursor, response, cards, processed_words, stats, builder,
                   result, fetched, fetch_calls, remember_log, add_log, write_calls,
                   write_ret, written, fail_stage>>

\* sleep(Duration::from_secs(1)).await
SleepLosingCursor ==
    /\ pc = "sleep"
    /\ pc' = "fetch"
    /\ cursor' = None
    /\ trace' = Append(trace, [op |-> "sleep"])
    /\ UNCHANGED <<config, elsewhere, outside, http_requests, page_count, response, cards, processed_words, stats,
                   builder, result, fetched, fetch_calls, remember_log, add_log,
                   write_calls, write_ret, written, fail_stage>>

Sleep ==
    /\ pc = "sleep"
    /\ pc' = "fetch"
    /\ trace' = Append(trace, [op |-> "sleep"])
    /\ UNCHANGED <<config, elsewhere, outside, http_requests, cursor, page_count, response, cards, processed_words, stats,
                   builder, result, fetched, fetch_calls, remember_log, add_log,
                   write_calls, write_ret, written, fail_stage>>

\* fetch_page(&self.deck_id, cursor) returned Ok(response)
FetchOk ==
    /\ pc = "fetch"
    /\ fetch_calls < MaxPages
    /\ trace' = Append(trace, FetchPageCall(deck_id, cursor))
    /\ ClientVerdict[deck_id] = "Ok"
    /\ http_requests' = http_requests + 1
    /\ \E resp \in Responses(fetch_calls + 1 = MaxPages) :
         /\ response' = Some(resp)
         /\ cards' = ConvertToVocabularyCards(resp)
         /\ fetched' = Append(fetched, resp)
    /\ fetch_calls' = fetch_calls + 1
    /\ pc' = "cards"
    /\ UNCHANGED <<config, elsewhere, outside, cursor, page_count, processed_words, stats, builder, result,
                   remember_log, add_log, write_calls, write_ret, written, fail_stage>>

\* fetch_page(..) returned Err(e): the ? operator returns it from process()
FetchErrSwallowed ==
    /\ pc = "fetch"
    /\ fetch_calls < MaxPages
    /\ trace' = Append(trace, FetchPageCall(deck_id, cursor))
    /\ UNCHANGED http_requests
    /\ fetch_calls' = fetch_calls + 1
    /\ fail_stage' = "fetch"
    /\ pc' = "write"
    /\ UNCHANGED <<config, elsewhere, outside, cursor, page_count, response, cards, processed_words, stats,
                   builder, result, fetched, remember_log, add_log, write_calls,
                   write_ret, written>>

FetchErr ==
    /\ pc = "fetch"
    /\ fetch_calls < MaxPages
    /\ trace' = Append(trace, FetchPageCall(deck_id, cursor))
    /\ \E e \in FetchErrors :
         /\ (e = "DeckId") <=> (ClientVerdict[deck_id] # "Ok")
         /\ result' = e
         /\ \E sent \in FetchSent(e) : http_requests' = http_requests + (IF sent THEN 1 ELSE 0)
    /\ fetch_calls' = fetch_calls + 1
    /\ fail_stage' = "fetch"
    /\ pc' = "done"
    /\ UNCHANGED <<config, elsewhere, outside, cursor, page_count, response, cards, processed_words, stats,
                   builder, fetched, remember_log, add_log, write_calls, write_ret,
                   written>>

\* One iteration of `for card in cards.into_iter()`
ProcessCard ==
    /\ pc = "cards"
    /\ cards # <<>>
    /\ LET card == Head(cards)
           r    == TryRemember(processed_words, card.word)
       IN  /\ cards' = Tail(cards)
           /\ processed_words' = r.processed_words
           /\ remember_log' = Append(remember_log, [word |-> card.word, ret |-> r.dup])
           /\ IF r.dup
              THEN /\ stats' = StatsAfterDuplicate(stats)
                   /\ pc' = "cards"
                   /\ UNCHANGED <<builder, add_log, result, fail_stage>>
              ELSE \E note_ok \in BOOLEAN :
                     LET a == AddNote(builder_kind, builder, card, note_ok)
                     IN  /\ builder' = a.builder
                         /\ add_log' = Append(add_log, [word |-> card.word, ret |-> a.ret])
                         /\ pc' = PcAfterAdd(a.ret)
                         /\ IF a.ret \in {"true", "false"}
                            THEN /\ stats' = StatsAfterAdd(stats, a.ret)
                                 /\ UNCHANGED <<result, fail_stage>>
                            ELSE /\ result' = a.ret
                                 /\ fail_stage' = "add"
                                 /\ UNCHANGED stats
    /\ UNCHANGED <<config, elsewhere, trace, outside, http_requests, cursor, page_count, response, fetched, fetch_calls,
                   write_calls, write_ret, written>>

\* After the for loop: the has_next_page check and the cursor update
PageEnd ==
    /\ pc = "cards"
    /\ cards = <<>>
    /\ IF StopAfterPage(response[1])
       THEN /\ pc' = "write"
            /\ UNCHANGED cursor
       ELSE /\ cursor' = NextCursor(response[1])
            /\ pc' = "loop"
    /\ UNCHANGED <<config, elsewhere, trace, outside, http_requests, page_count, response, cards, processed_words, stats, builder,
                   result, fetched, fetch_calls, remember_log, add_log, write_calls,
                   write_ret, written, fail_stage>>

\* self.write_output()?; self.print_stats(); Ok(())
WriteOutputDraining ==
    /\ pc = "write"
    /\ \E io_ok \in BOOLEAN :
         LET w == BuilderWrite(builder_kind, builder, Destination(output_path), io_ok)
         IN  /\ write_ret' = w.ret
             /\ written' = w.out
             /\ env' = Append(env, io_ok)
             /\ result' = WriteOutputResult(w.ret)
             /\ trace' = Append(trace, [op |-> "write", dest |-> WriteDestination(output_path)]) \o PrintStats(WriteOutputResult(w.ret))
             /\ fail_stage' = IF w.ret = "Ok" THEN "none" ELSE "write"
    /\ write_calls' = write_calls + 1
    /\ builder' = NewBuilder
    /\ pc' = "done"
    /\ UNCHANGED <<config, elsewhere, processor_built, ret, http_requests, cursor, page_count, response,
                   cards, processed_words, stats, fetched, fetch_calls,
                   remember_log, add_log>>

WriteOutput ==
    /\ pc = "write"
    /\ \E io_ok \in BOOLEAN :
         LET w == BuilderWrite(builder_kind, builder, Destination(output_path), io_ok)
         IN  /\ write_ret' = w.ret
             /\ written' = w.out
             /\ env' = Append(env, io_ok)
             /\ result' = WriteOutputResult(w.ret)
             /\ trace' = Append(trace, [op |-> "write", dest |-> WriteDestination(output_path)]) \o PrintStats(WriteOutputResult(w.ret))
             /\ fail_stage' = IF w.ret = "Ok" THEN "none" ELSE "write"
    /\ write_calls' = write_calls + 1
    /\ pc' = "done"
    /\ UNCHANGED <<config, elsewhere, processor_built, ret, http_requests, cursor, page_count, response,
                   cards, processed_words, stats, builder, fetched, fetch_calls,
                   remember_log, add_log>>

Next ==
    \/ MainArgsCheck
    \/ MainValidate
    \/ LoopHead
    \/ Sleep
    \/ FetchOk
    \/ FetchErr
    \/ ProcessCard
    \/ PageEnd
    \/ WriteOutput

Spec == Init /\ [][Next]_vars

\* ------------------------------------- the validators called on their own
\* Everything but the function called is at rest.
AtRest ==
    /\ page_limit = None
    /\ builder_kind = "Json"
    /\ output_path = "-"
    /\ initial_builder = NewBuilder
    /\ processor_built = FALSE
    /\ ProcessStart

InitValidate ==
    /\ ElsewhereAtRest
    /\ deck_id \in DeckIdInputs
    /\ pc \in {"deck::validate_deck_id", "DuocardsClient::validate_deck_id"}
    /\ AtRest

\* deck::validate_deck_id(deck_id)
ValidateCall ==
    /\ pc = "deck::validate_deck_id"
    /\ ret' = Some(ValidateDeckId(deck_id))
    /\ pc' = "returned"
    /\ UNCHANGED <<config, elsewhere, trace, env, processor_built, cursor, page_count, response, cards,
                   processed_words, stats, builder, result, fetched, fetch_calls,
                   http_requests, remember_log, add_log, write_calls, write_ret, written,
                   fail_stage>>

\* client.validate_deck_id(deck_id)
ClientValidateCall ==
    /\ pc = "DuocardsClient::validate_deck_id"
    /\ ret' = Some(ClientValidateDeckId(deck_id))
    /\ pc' = "returned"
    /\ UNCHANGED <<config, elsewhere, trace, env, processor_built, cursor, page_count, response, cards,
                   processed_words, stats, builder, result, fetched, fetch_calls,
                   http_requests, remember_log, add_log, write_calls, write_ret, written,
                   fail_stage>>

NextValidate == ValidateCall \/ ClientValidateCall

SpecValidate == InitValidate /\ [][NextValidate]_vars

\* ------------------------------------------------- observations of a run
\* The words handed to add_note, in call order.
AddedWords == [i \in 1..Len(add_log) |-> add_log[i].word]

\* The words handed to try_remember, in call order.
RememberedWords == [i \in 1..Len(remember_log) |-> remember_log[i].word]

PageWords(resp) == [i \in 1..Len(resp.edges) |-> resp.edges[i].front]

\* The records of the fetched pages, concatenated in fetch order.
FetchedWords == Flatten([i \in 1..Len(fetched) |-> PageWords(fetched[i])])

\* s with every later occurrence of an element removed.
RECURSIVE FirstOccurrences(_)
FirstOccurrences(s) ==
    IF s = <<>> THEN <<>>
    ELSE LET front == SubSeq(s, 1, Len(s) - 1)
             last  == s[Len(s)]
         IN  IF last \in Range(front)
             THEN FirstOccurrences(front)
             ELSE Append(FirstOccurrences(front), last)

CountRet(log, v) == Cardinality({i \in 1..Len(log) : log[i].ret = v})

\* The loop was left by a break (page limit or last page), not by an error.
LoopEnded == pc = "write" \/ (pc = "done" /\ fail_stage \in {"none", "write"})

\* Every fetched page reported has_next_page = true.
AllReportNext == \A i \in 1..Len(fetched) : fetched[i].has_next_page

\* The loop was left because should_continue refused the page.
LimitStop == page_limit # None /\ page_count > page_limit[1]

\* ---------------------------------------------------------------- claims

\* C1: order preservation. At every point of a run the words passed to add_note
\* are a prefix of the fetched pages' records, concatenated in fetch order, with
\* every later occurrence of a word removed; once the loop has ended normally the
\* two sequences are equal.
C1_OrderPreserved ==
    /\ IsPrefix(AddedWords, FirstOccurrences(FetchedWords))
    /\ LoopEnded => AddedWords = FirstOccurrences(FetchedWords)

\* A finished two-page run with repeated words whose survivors come in page order.
C1_Witness ==
    /\ result = "Ok"
    /\ Len(fetched) = 2
    /\ PageWords(fetched[1]) = <<"world", "hello">>
    /\ Len(FetchedWords) = 4
    /\ AddedWords = <<"world", "hello">>

\* C2: a record whose word was already presented to try_remember in this run is
\* not passed to add_note (the sink is left alone) and raises duplicates by
\* exactly one, total_cards by nothing; and the pages [hello, world], [hello]
\* into a new sink give total_cards = 2, duplicates = 1 and add_note calls for
\* exactly hello, world.
C2_RepeatedWordStep ==
    (pc = "cards" /\ cards # <<>> /\ Head(cards).word \in Range(RememberedWords))
        => /\ add_log' = add_log
           /\ builder' = builder
           /\ stats'.duplicates = stats.duplicates + 1
           /\ stats'.total_cards = stats.total_cards

HelloWorldThenHello ==
    /\ Len(fetched) = 2
    /\ PageWords(fetched[1]) = <<"hello", "world">>
    /\ PageWords(fetched[2]) = <<"hello">>

C2_Example ==
    (HelloWorldThenHello /\ initial_builder = NewBuilder /\ result = "Ok")
        => /\ stats = [total_cards |-> 2, duplicates |-> 1]
           /\ AddedWords = <<"hello", "world">>

\* C2: both parts, the step of a repeated word and the two-page example.
C2_DuplicateNeverReachesSink == [][C2_RepeatedWordStep]_vars /\ []C2_Example

C2_Witness ==
    /\ HelloWorldThenHello
    /\ initial_builder = NewBuilder
    /\ result = "Ok"
    /\ stats.duplicates = 1

\* C3: total_cards is the number of add_note calls that returned true and
\* duplicates the number of try_remember calls that returned true; an add_note
\* call that returns Ok(false) changes neither counter and the run goes on.
C3_CountersMatchCalls ==
    /\ stats.total_cards = CountRet(add_log, "true")
    /\ stats.duplicates = CountRet(remember_log, TRUE)

C3_RejectedStep ==
    (Len(add_log') = Len(add_log) + 1 /\ add_log'[Len(add_log')].ret = "false")
        => /\ stats' = stats
           /\ result' = "Running"
           /\ pc' = "cards"

\* C3: the counters equal the call counts in every state, and a rejected record
\* moves neither counter nor ends the run.
C3_Counters == []C3_CountersMatchCalls /\ [][C3_RejectedStep]_vars

\* A successful run in which the sink rejected one record and accepted another.
C3_Witness ==
    /\ result = "Ok"
    /\ CountRet(add_log, "false") = 1
    /\ CountRet(add_log, "true") = 1
    /\ stats.duplicates >= 1

\* C4: with a page limit N there are never more than N fetch_page calls, only
\* records of fetched pages reach try_remember, and when every fetched page
\* reported has_next_page = true and nothing failed, the loop ends after exactly
\* N fetch_page calls.
C4_PageLimitBoundary ==
    page_limit # None =>
        /\ fetch_calls <= page_limit[1]
        /\ Len(fetched) <= page_limit[1]
        /\ IsPrefix(RememberedWords, FetchedWords)
        /\ (LoopEnded /\ AllReportNext) => fetch_calls = page_limit[1]

\* A limited run stopped by the limit although the last page reported a next page.
C4_Witness ==
    /\ page_limit = Some(MaxPages - 1)
    /\ result = "Ok"
    /\ AllReportNext
    /\ fetch_calls = MaxPages - 1
    /\ Len(FetchedWords) >= 1

\* C5: when the loop has ended normally every fetch_page call returned a page and
\* every record of those pages was presented; without a limit the last fetched
\* page is the first to report has_next_page = false, so the number of fetches is
\* its index p; with a limit N the number of fetches is min(N, p); and
\* the run then writes the output (exactly one builder.write call).
FirstLastPage ==
    IF AllReportNext THEN 0
    ELSE CHOOSE i \in 1..Len(fetched) :
            /\ ~fetched[i].has_next_page
            /\ \A j \in 1..(i - 1) : fetched[j].has_next_page

C6_LimitStopIsNormal ==
    LimitStop =>
        \/ pc = "write"
        \/ /\ pc = "done"
           /\ write_calls = 1
           /\ fail_stage \in {"none", "write"}
           /\ write_ret = "Ok" => (result = "Ok" /\ written = Some(builder.cards))

\* A run stopped by the limit after accepting a card, whose write succeeded.
C6_Witness ==
    /\ LimitStop
    /\ fetch_calls >= 1
    /\ AllReportNext
    /\ Len(add_log) >= 1
    /\ result = "Ok"
    /\ written = Some(builder.cards)

\* C7: a fetch_page error ends the run with that error: the failing call changes
\* nothing but the call count, process() has returned the error, builder.write was
\* never called and nothing was written, and no step follows (no retry, no
\* further try_remember or add_note).
C7_AfterFetchError ==
    fail_stage = "fetch" =>
        /\ pc = "done"
        /\ result \in FetchErrors
        /\ write_calls = 0
        /\ write_ret = "none"
        /\ written = None

C7_FetchErrorStep ==
    /\ (fail_stage # "fetch" /\ fail_stage' = "fetch") =>
          /\ fetch_calls' = fetch_calls + 1
          /\ UNCHANGED <<remember_log, add_log, processed_words, stats, builder, fetched>>
    /\ fail_stage = "fetch" => UNCHANGED vars

\* C7: a fetch_page error is terminal: nothing is retried, presented or written.
C7_FetchErrorAborts == []C7_AfterFetchError /\ [][C7_FetchErrorStep]_vars

\* The second fetch failed after the first page's cards had been accepted.
C7_Witness ==
    /\ fail_stage = "fetch"
    /\ fetch_calls = 2
    /\ Len(add_log) >= 1
    /\ result = "Api"

\* C8: an Err from add_note ends the run with that error: neither counter moves
\* for the failing record, the sink is unchanged, process() has returned the error,
\* builder.write was never called, and no step follows (the rest of the page is
\* not presented, no further page is fetched).
C8_AfterAddError ==
    fail_stage = "add" =>
        /\ pc = "done"
        /\ result = add_log[Len(add_log)].ret
        /\ result \notin {"true", "false", "Ok", "Running"}
        /\ write_calls = 0
        /\ write_ret = "none"
        /\ written = None

C8_AddErrorStep ==
    /\ (fail_stage # "add" /\ fail_stage' = "add") =>
          /\ stats' = stats
          /\ builder' = builder
          /\ fetch_calls' = fetch_calls
    /\ fail_stage = "add" => UNCHANGED vars

\* C8: an add_note error is terminal: nothing more is presented, fetched or written.
C8_AddErrorAborts == []C8_AfterAddError /\ [][C8_AddErrorStep]_vars

\* add_note failed with a record of the page still unvisited and a next page reported.
C8_Witness ==
    /\ fail_stage = "add"
    /\ cards # <<>>
    /\ response[1].has_next_page
    /\ fetch_calls < MaxPages

\* C9: an error of builder.write is what process() returns, and write_output leaves
\* total_cards and duplicates as they were when the loop ended.
C9_AfterWrite ==
    write_calls >= 1 =>
        /\ pc = "done"
        /\ write_calls = 1
        /\ result = write_ret
        /\ write_ret # "Ok" => fail_stage = "write"

C9_WriteStep == pc = "write" => (stats' = stats /\ write_calls' = write_calls + 1)

\* C9: process() returns the write's error and the write leaves the counters alone.
C9_WriteErrorReturned == []C9_AfterWrite /\ [][C9_WriteStep]_vars

\* The write failed after cards had been counted.
C9_Witness ==
    /\ write_ret = "Other"
    /\ result = "Other"
    /\ stats.total_cards >= 1
    /\ stats.duplicates >= 1

\* The errors add_note and write of the configured sink can return.
AddNoteErrors(kind) ==
    {AddNote(kind, NewBuilder, VocabularyCardFrom(c), ok).ret :
        c \in SourceCards, ok \in BOOLEAN} \ {"true", "false"}

WriteErrors(kind, path) ==
    {BuilderWrite(kind, NewBuilder, Destination(path), ok).ret : ok \in BOOLEAN} \ {"Ok"}

\* C10 as stated: the error process() returns identifies the stage that failed, so
\* the error of a failed write is none that add_note or fetch_page could have
\* returned in this configuration, and likewise for the other two stages.
C10_ErrorIdentifiesStage ==
    /\ fail_stage = "write" =>
          result \notin (AddNoteErrors(builder_kind) \cup FetchErrors)
    /\ fail_stage = "add" =>
          result \notin (WriteErrors(builder_kind, output_path) \cup FetchErrors)
    /\ fail_stage = "fetch" =>
          result \notin (AddNoteErrors(builder_kind) \cup WriteErrors(builder_kind, output_path))

\* C10 (amended): process() returns the failing call's error unchanged and adds no
\* stage to it. The error is one of fetch_page's kinds exactly when the fetch
\* failed, AnkiOutputNotSupported only when the write failed, and Other when
\* either add_note or the write failed.
C10_ErrorPassedThrough ==
    /\ (fail_stage = "fetch") <=> (result \in FetchErrors)
    /\ result = "AnkiOutputNotSupported" => fail_stage = "write"
    /\ result = "Other" => fail_stage \in {"add", "write"}
    /\ fail_stage = "add" => result = add_log[Len(add_log)].ret
    /\ fail_stage = "write" => result = write_ret
    /\ (fail_stage = "none") <=> (result \in {"Running", "Ok"})

\* An Anki run whose file write failed with the kind a failed add_note also has.
C10_Witness ==
    /\ builder_kind = "Anki"
    /\ fail_stage = "write"
    /\ result = "Other"
    /\ result \in AddNoteErrors(builder_kind)
    /\ Len(add_log) >= 1

\* ------------------------------------ the DuplicateHandler used on its own
\* The number of try_remember calls made on one handler
MaxCalls == 4

\* The words presented: two that differ in case only, and a third
HandlerWords == {"hello", "Hello", "world"}

\* DuplicateHandler::new()
InitDedup ==
    /\ ElsewhereAtRest
    /\ pc = "DuplicateHandler"
    /\ deck_id = TestDeckId
    /\ AtRest

\* handler.try_remember(word)
TryRememberCall ==
    /\ pc = "DuplicateHandler"
    /\ Len(remember_log) < MaxCalls
    /\ \E word \in HandlerWords :
         LET r == TryRemember(processed_words, word)
         IN  /\ processed_words' = r.processed_words
             /\ remember_log' = Append(remember_log, [word |-> word, ret |-> r.dup])
             /\ ret' = Some(r.dup)
    /\ UNCHANGED <<config, elsewhere, trace, env, processor_built, pc, cursor, page_count, response, cards, stats,
                   builder, result, fetched, fetch_calls, http_requests, add_log,
                   write_calls, write_ret, written, fail_stage>>

NextDedup == TryRememberCall

SpecDedup == InitDedup /\ [][NextDedup]_vars

\* ------------------------------------------ should_continue on its own
\* The largest page limit tried
MaxLimit == 9

\* client.with_page_limit(limit), or no limit
LimitInputs == {None} \cup {Some(n) : n \in 0..MaxLimit}

\* The page numbers asked about: from zero to past the largest limit
PageInputs == 0..(MaxLimit + 1)

InitLimit ==
    /\ ElsewhereAtRest
    /\ page_limit \in LimitInputs
    /\ pc = "should_continue"
    /\ deck_id = TestDeckId
    /\ builder_kind = "Json"
    /\ output_path = "-"
    /\ initial_builder = NewBuilder
    /\ processor_built = FALSE
    /\ ProcessStart

\* client.should_continue(current_page)
ShouldContinueCall ==
    /\ pc = "should_continue"
    /\ \E current_page \in PageInputs :
         ret' = Some([current_page |-> current_page,
                      value |-> ShouldContinue(page_limit, current_page)])
    /\ UNCHANGED <<config, elsewhere, trace, env, processor_built, pc, cursor, page_count, response, cards,
                   processed_words, stats, builder, result, fetched, fetch_calls,
                   http_requests, remember_log, add_log, write_calls, write_ret, written,
                   fail_stage>>

NextLimit == ShouldContinueCall

SpecLimit == InitLimit /\ [][NextLimit]_vars

\* ---------------------------------------------- a sink used on its own
\* The number of add_note calls made on one sink
MaxNotes == 3

\* The cards of the sinks' tests: two of the same word that differ in example
\* and status, and one of another word
SinkCards ==
    { [word |-> "hello", translation |-> "hola", example |-> Some("Hello, world!"),
       status |-> "New"],
      [word |-> "hello", translation |-> "hola", example |-> Some("Hello again!"),
       status |-> "Learning"],
      [word |-> "goodbye", translation |-> "adios", example |-> Some("Goodbye, world!"),
       status |-> "Known"] }

\* JsonOutputBuilder::new() or AnkiPackageBuilder::new(..), and the destination
\* the caller will write to
InitSink ==
    /\ ElsewhereAtRest
    /\ builder_kind \in BuilderKinds
    /\ output_path \in OutputPaths
    /\ initial_builder = NewBuilder
    /\ page_limit = None
    /\ deck_id = TestDeckId
    /\ processor_built = FALSE
    /\ pc = "sink"
    /\ ProcessStart

\* builder.add_note(card)
DirectAddNote ==
    /\ pc = "sink"
    /\ Len(add_log) < MaxNotes
    /\ \E card \in SinkCards, note_ok \in (IF builder_kind = "Anki" THEN BOOLEAN ELSE {TRUE}) :
         LET a == AddNote(builder_kind, builder, card, note_ok)
         IN  /\ builder' = a.builder
             /\ add_log' = Append(add_log, [word |-> card.word, card |-> card, ret |-> a.ret])
             /\ env' = Append(env, note_ok)
             /\ ret' = Some(a.ret)
    /\ UNCHANGED <<config, elsewhere, trace, processor_built, http_requests, pc, cursor, page_count, response,
                   cards, processed_words, stats, result, fetched, fetch_calls, remember_log,
                   write_calls, write_ret, written, fail_stage>>

\* builder.write(dest)
DirectWrite ==
    /\ pc = "sink"
    /\ \E io_ok \in BOOLEAN :
         LET w == BuilderWrite(builder_kind, builder, Destination(output_path), io_ok)
         IN  /\ write_ret' = w.ret
             /\ written' = w.out
             /\ env' = Append(env, io_ok)
             /\ ret' = Some(w.ret)
    /\ write_calls' = write_calls + 1
    /\ pc' = "written"
    /\ UNCHANGED <<config, elsewhere, trace, processor_built, http_requests, cursor, page_count, response,
                   cards, processed_words, stats, builder, result, fetched, fetch_calls,
                   remember_log, add_log, fail_stage>>

NextSink == DirectAddNote \/ DirectWrite

SpecSink == InitSink /\ [][NextSink]_vars

\* ---------------------------------------------- deck identifier claims
\* The five checks in their order, the fourth and fifth made on what follows the
\* "Deck:" prefix of the decoded text.
FirstFailingCheck(id) ==
    LET decoded   == Base64Decode(id)
        text      == decoded[1]
        remainder == StripPrefixOnce(text, DeckPrefix)
        uuid      == ParseUuid(remainder)
    IN  IF decoded = None THEN "InvalidBase64"
        ELSE IF ~IsUtf8(text) THEN "InvalidFormat"
        ELSE IF ~StartsWith(text, DeckPrefix) THEN "InvalidFormat"
        ELSE IF uuid = None THEN "InvalidUuid"
        ELSE IF UuidVersion(uuid[1]) # 4 THEN "NotUuidV4"
        ELSE "Ok"

\* C12: validate_deck_id returns the outcome of the first failing check in the
\* order base64, UTF-8, "Deck:" prefix, UUID syntax, UUID version 4
\* (InvalidBase64, InvalidFormat, InvalidFormat, InvalidUuid, NotUuidV4), Ok only
\* when all five pass, and nothing else.
C12_FirstFailingCheckDecides ==
    pc = "returned" =>
        /\ ret[1] \in {"Ok", "InvalidBase64", "InvalidFormat", "InvalidUuid", "NotUuidV4"}
        /\ ret[1] = FirstFailingCheck(deck_id)

\* The decoded text is "Deck:" followed by r, and r is not a UUID.
DeckThenNoUuid(id) ==
    LET decoded == Base64Decode(id)
    IN  /\ decoded # None
        /\ IsUtf8(decoded[1])
        /\ StartsWith(decoded[1], DeckPrefix)
        /\ ParseUuid(SubSeq(decoded[1], Len(DeckPrefix) + 1, Len(decoded[1]))) = None

\* C13: an identifier whose decoded text is "Deck:" followed by a remainder that is
\* not itself a UUID (a remainder beginning with "Deck:" included) fails with
\* InvalidUuid.
C13_RemainderMustBeUuid ==
    (pc = "returned" /\ DeckThenNoUuid(deck_id)) => ret = Some("InvalidUuid")

\* ------------------------------------------- validation before the network
C11_NothingBeforeValidation ==
    /\ ~processor_built => (fetch_calls = 0 /\ http_requests = 0)
    /\ pc \in {"main", "validate", "exit"} => ~processor_built
    /\ pc = "exit" => (ret # None /\ ret[1] # "Ok")
    /\ ClientVerdict[deck_id] # "Ok" => http_requests = 0

C11_InvalidIdStep ==
    /\ (pc = "validate" /\ MainVerdict[deck_id] # "Ok")
          => /\ pc' = "exit"
             /\ ret' = Some("Api: Invalid deck ID")
             /\ ~processor_built'
             /\ fetch_calls' = 0
    /\ (pc = "fetch" /\ ClientVerdict[deck_id] # "Ok")
          => /\ pc' = "done"
             /\ result' = "DeckId"
             /\ http_requests' = http_requests
             /\ fetched' = fetched

\* C11: validation runs before any network call. When validate_deck_id fails,
\* main returns an error without constructing the processor, and fetch_page is
\* never invoked; and fetch_page itself, given an invalid identifier, returns
\* the DeckId error without sending an HTTP request.
C11_ValidationBeforeNetwork == []C11_NothingBeforeValidation /\ [][C11_InvalidIdStep]_vars

\* main has returned the validation error of an identifier that is base64 of
\* "Deck:" and no UUID; no processor, no fetch, no request.
C11_Witness ==
    /\ pc = "exit"
    /\ ret = Some("Api: Invalid deck ID")
    /\ MainVerdict[deck_id] = "InvalidUuid"
    /\ ~processor_built
    /\ fetch_calls = 0
    /\ http_requests = 0

\* ------------------------------------------------ duplicate handler claims
\* C14: try_remember returns false the first time a handler is given an exact
\* string and true on every later call with that string, whatever other words
\* come in between; strings that differ in case only are different keys.
C14_FalseOnceThenTrue ==
    \A i \in 1..Len(remember_log) :
        remember_log[i].ret = (\E j \in 1..(i - 1) : remember_log[j].word = remember_log[i].word)

\* "hello", "Hello", "world", "hello": only the last call returns true.
C14_Witness ==
    /\ RememberedWords = <<"hello", "Hello", "world", "hello">>
    /\ [i \in 1..4 |-> remember_log[i].ret] = <<FALSE, FALSE, FALSE, TRUE>>
    /\ ret = Some(TRUE)

C15_SetIsWhatWasPresented == processed_words = Range(RememberedWords)

C15_SetGrows ==
    /\ processed_words \subseteq processed_words'
    /\ IsPrefix(remember_log, remember_log')

\* C15: in every state of a run a word is in the DuplicateHandler's set exactly
\* when it was presented to try_remember earlier in the run; the set is empty at
\* the start and only grows.
C15_SetTracksPresentedWords ==
    /\ (remember_log = <<>> => processed_words = {})
    /\ []C15_SetIsWhatWasPresented
    /\ [][C15_SetGrows]_vars

\* A finished run that presented both words, one of them twice.
C15_Witness ==
    /\ pc = "done"
    /\ result = "Ok"
    /\ processed_words = {"hello", "world"}
    /\ Len(remember_log) = 3

\* ------------------------------------------------------ page limit claim
C16_Answer ==
    ret # None =>
        ret[1].value = IF page_limit = None THEN TRUE ELSE ret[1].current_page <= page_limit[1]

C16_NothingElseChanges ==
    UNCHANGED <<page_limit, page_count, processed_words, stats, builder, fetch_calls>>

\* C16: should_continue(page) is pure: with a limit L it is true exactly when
\* page <= L, without a limit it is true for every page, and calling it changes
\* nothing (the limit, the counters and the collections stay as they were).
C16_ShouldContinueIsPure == []C16_Answer /\ [][C16_NothingElseChanges]_vars

\* With limit 5, page 6 has just been refused.
C16_Witness ==
    /\ page_limit = Some(5)
    /\ ret = Some([current_page |-> 6, value |-> FALSE])

\* ----------------------------------------------------------- sink claims
\* The cards of the add_note calls that returned Ok(true), in call order
AcceptedCards ==
    LET accepted == SelectSeq(add_log, LAMBDA e : e.ret = "true")
    IN  [i \in 1..Len(accepted) |-> accepted[i].card]

\* The words accepted before the i-th add_note call
AcceptedBefore(i) == {add_log[j].word : j \in {k \in 1..(i - 1) : add_log[k].ret = "true"}}

\* The environment let the write through.
WriteLetThrough == env[Len(env)]

C19_JsonWritesAcceptedCards ==
    (builder_kind = "Json" /\ pc = "written") =>
        /\ builder.cards = AcceptedCards
        /\ write_ret = "Ok" => written = Some(AcceptedCards)
        /\ WriteLetThrough => write_ret = "Ok"
        /\ (AcceptedCards = <<>> /\ WriteLetThrough) => written = Some(<<>>)

\* Three calls, two accepted: "goodbye" then "hello", written in that order.
C19_Witness ==
    /\ builder_kind = "Json"
    /\ pc = "written"
    /\ write_ret = "Ok"
    /\ Len(add_log) = 3
    /\ Len(written[1]) = 2
    /\ written[1][1].word = "goodbye"
    /\ written[1][2].word = "hello"

\* ------------------------------------------------------ the empty source
\* The only page fetched has no records and reports no next page.
EmptySource ==
    /\ Len(fetched) = 1
    /\ fetched[1].edges = <<>>
    /\ ~fetched[1].has_next_page

\* The sink can write to the destination of the run.
DestinationSupported == ~(builder_kind = "Anki" /\ Destination(output_path) = "Writer")

\* C20: a run whose only page has zero records and has_next_page = false makes
\* exactly one fetch and no try_remember or add_note call, ends with
\* total_cards = 0 and duplicates = 0, and still calls the sink's write once,
\* which succeeds (on a destination the sink supports and that takes the data).
C20_EmptySourceStillWrites ==
    EmptySource =>
        /\ fetch_calls = 1
        /\ remember_log = <<>>
        /\ add_log = <<>>
        /\ stats = [total_cards |-> 0, duplicates |-> 0]
        /\ pc \in {"cards", "write", "done"}
        /\ pc = "done" =>
              /\ write_calls = 1
              /\ fail_stage \in {"none", "write"}
              /\ builder = initial_builder
              /\ (DestinationSupported /\ WriteLetThrough) =>
                    (write_ret = "Ok" /\ result = "Ok" /\ written = Some(initial_builder.cards))

\* An empty source was run into a new sink: one fetch, nothing presented, zero
\* counters, and an empty output written successfully.
C20_Witness ==
    /\ EmptySource
    /\ initial_builder = NewBuilder
    /\ pc = "done"
    /\ result = "Ok"
    /\ fetch_calls = 1
    /\ write_calls = 1
    /\ written = Some(<<>>)
    /\ stats = [total_cards |-> 0, duplicates |-> 0]

\* ------------------------------------------------------ the order of a run
\* The positions of the trace that hold the operation op
TraceAt(op) == {i \in 1..Len(trace) : trace[i].op = op}

Pauses == Cardinality(TraceAt("sleep"))

Fetches == Cardinality(TraceAt("fetch_page"))

\* The fetch_page calls of the run, in order
FetchPageCalls == SelectSeq(trace, LAMBDA e : e.op = "fetch_page")

\* C23: the pause is taken exactly once before every fetch after the first and
\* never before the first: every fetch but the first directly follows a pause
\* that directly follows the previous fetch, a pause is always followed by a
\* fetch, and a run that made k >= 1 fetches and has left the loop (last page,
\* error or page limit) has paused k - 1 times; a page the limit refuses gets no
\* pause.
C23_PauseBetweenFetches ==
    /\ \A i \in TraceAt("fetch_page") :
          i = 1 \/ (i >= 3 /\ trace[i - 1].op = "sleep" /\ trace[i - 2].op = "fetch_page")
    /\ \A i \in TraceAt("sleep") :
          IF i = Len(trace) THEN pc = "fetch" ELSE trace[i + 1].op = "fetch_page"
    /\ Fetches = fetch_calls
    /\ Fetches = 0 => Pauses = 0
    /\ (Fetches >= 1 /\ pc \in {"write", "done"}) => Pauses = Fetches - 1
    /\ LimitStop => Pauses = (IF Fetches = 0 THEN 0 ELSE page_limit[1] - 1)

\* A run of two fetches that stopped on the last page after one pause.
C23_Witness ==
    /\ pc = "done"
    /\ result = "Ok"
    /\ Fetches = 2
    /\ Pauses = 1
    /\ ~fetched[2].has_next_page

\* The words of the cards of the current page not yet visited
PendingWords == [i \in 1..Len(cards) |-> cards[i].word]

C24_PageFinishedBeforeNext ==
    /\ IsPrefix(RememberedWords, FetchedWords)
    /\ pc = "cards" => RememberedWords \o PendingWords = FetchedWords
    /\ pc \in {"loop", "sleep", "fetch", "write"} =>
          /\ cards = <<>>
          /\ RememberedWords = FetchedWords
          /\ Len(add_log) = CountRet(remember_log, FALSE)
    /\ fetch_calls <= Len(fetched) + 1
    /\ fetch_calls > Len(fetched) => (pc = "done" /\ fail_stage = "fetch")

C24_FetchStep ==
    fetch_calls' # fetch_calls =>
        /\ fetch_calls' = fetch_calls + 1
        /\ cards = <<>>
        /\ RememberedWords = FetchedWords
        /\ Len(add_log) = CountRet(remember_log, FALSE)
        /\ remember_log' = remember_log
        /\ add_log' = add_log

\* C24: pages are handled one at a time. A fetch is issued only when every record
\* of the pages fetched so far was dedup-checked and, if new, handed to the sink;
\* the records are examined in page order, those of one page never mixed with
\* those of another; and no fetch is made while another is unanswered.
C24_OnePageAtATime == []C24_PageFinishedBeforeNext /\ [][C24_FetchStep]_vars

\* The second fetch is about to be issued: both records of page one were examined.
C24_Witness ==
    /\ pc = "fetch"
    /\ fetch_calls = 1
    /\ Len(fetched[1].edges) = 2
    /\ Len(remember_log) = 2
    /\ cards = <<>>

\* C25: the first fetch_page call of a run is given the cursor None, the
\* (k+1)-th call exactly the end_cursor the k-th page returned, and every call
\* the deck id of the processor.
C25_CursorThreading ==
    /\ \A k \in 1..Len(FetchPageCalls) :
          /\ FetchPageCalls[k].deck_id = deck_id
          /\ FetchPageCalls[k].cursor = IF k = 1 THEN None ELSE fetched[k - 1].end_cursor
    /\ pc \in {"loop", "sleep", "fetch"} =>
          cursor = IF fetched = <<>> THEN None ELSE fetched[Len(fetched)].end_cursor

\* The second fetch was called with the cursor the first page returned.
C25_Witness ==
    /\ Len(FetchPageCalls) = 2
    /\ fetched[1].end_cursor = Some("cursor1")
    /\ FetchPageCalls[1].cursor = None
    /\ FetchPageCalls[2].cursor = Some("cursor1")

\* ---------------------------------------------------- the success summary
\* What main() returns: its own early error, or what process() returned
MainReturn == IF pc = "exit" THEN ret[1] ELSE result

\* Some step of the run has failed.
RunFailed == pc = "exit" \/ fail_stage # "none"

\* C26: the success summary (print_stats) is produced, and process() and main
\* return Ok, only when every fetch, every add_note and the sink's write
\* succeeded; after a validation, fetch, add or write failure main returns an
\* error and no summary was printed.
C26_SummaryOnlyOnSuccess ==
    /\ Cardinality(TraceAt("print_stats")) <= 1
    /\ (TraceAt("print_stats") # {}) <=> (result = "Ok")
    /\ result = "Ok" =>
          /\ pc = "done"
          /\ processor_built
          /\ fetch_calls = Len(fetched)
          /\ \A i \in 1..Len(add_log) : add_log[i].ret \in {"true", "false"}
          /\ write_calls = 1
          /\ write_ret = "Ok"
          /\ trace[Len(trace)].op = "print_stats"
          /\ trace[Len(trace) - 1].op = "write"
          /\ MainReturn = "Ok"
    /\ RunFailed =>
          /\ TraceAt("print_stats") = {}
          /\ MainReturn \notin {"Ok", "Running"}
    /\ (fetch_calls > Len(fetched)
            \/ (\E i \in 1..Len(add_log) : add_log[i].ret \notin {"true", "false"})
            \/ write_ret \notin {"none", "Ok"}
            \/ (pc = "exit" /\ MainVerdict[deck_id] # "Ok")) => RunFailed

\* A run of two fetches has added, written, and printed the summary last.
C26_Witness ==
    /\ pc = "done"
    /\ MainReturn = "Ok"
    /\ Len(add_log) >= 1
    /\ Fetches = 2
    /\ trace[Len(trace)].op = "print_stats"

\* ------------------------------------------------------------ the counters
\* The records decided so far: counted as saved or as duplicate
Decided == stats.total_cards + stats.duplicates

\* C28: in a run whose sink starts empty add_note never returns false, because
\* the dedup check keeps every repeated word from the sink; so between records
\* total_cards + duplicates is the number of records examined and total_cards
\* the number of distinct words seen.
C28_SinkNeverRejects ==
    initial_builder = NewBuilder =>
        /\ \A i \in 1..Len(add_log) : add_log[i].ret # "false"
        /\ fail_stage # "add" =>
              /\ Decided = Len(remember_log)
              /\ stats.total_cards = Cardinality(Range(RememberedWords))
              /\ stats.total_cards = Len(builder.cards)

\* Three records examined with a new sink: two words saved, one repetition.
C28_Witness ==
    /\ initial_builder = NewBuilder
    /\ Len(remember_log) = 3
    /\ stats = [total_cards |-> 2, duplicates |-> 1]
    /\ Len(add_log) = 2

C29_CounterStep ==
    /\ stats'.total_cards >= stats.total_cards
    /\ stats'.duplicates >= stats.duplicates
    /\ stats' # stats =>
          /\ pc = "cards" /\ cards # <<>>
          /\ Len(remember_log') = Len(remember_log) + 1
          /\ \/ (stats'.total_cards = stats.total_cards + 1 /\ stats'.duplicates = stats.duplicates)
             \/ (stats'.total_cards = stats.total_cards /\ stats'.duplicates = stats.duplicates + 1)
    /\ (pc # "cards" \/ cards = <<>>) => stats' = stats

\* C29: total_cards and duplicates start at zero, never decrease and change only
\* in the per-record step of process(), which raises at most one of them, by one;
\* fetching, pausing, the page end and writing leave both as they are.
C29_CountersMonotone ==
    /\ stats = [total_cards |-> 0, duplicates |-> 0]
    /\ [][C29_CounterStep]_vars

\* Both counters have been raised and the output was written.
C29_Witness ==
    /\ pc = "done"
    /\ write_calls = 1
    /\ stats.total_cards >= 1
    /\ stats.duplicates >= 1

\* The loop was left by a break: the limit refused a page or the last page said so.
StoppedNormally ==
    /\ fetch_calls = Len(fetched)
    /\ \A i \in 1..Len(add_log) : add_log[i].ret \in {"true", "false"}
    /\ LimitStop \/ (fetched # <<>> /\ ~fetched[Len(fetched)].has_next_page)

C30_AfterWrite ==
    /\ write_calls <= 1
    /\ Cardinality(TraceAt("write")) = write_calls
    /\ write_calls = 1 =>
          /\ pc = "done"
          /\ StoppedNormally
          /\ \A i \in TraceAt("write") : \A j \in (i + 1)..Len(trace) : trace[j].op = "print_stats"

C30_WriteStep ==
    /\ write_calls' # write_calls =>
          (write_calls = 0 /\ pc = "write" /\ StoppedNormally /\ builder' = builder)
    /\ write_calls >= 1 =>
          /\ fetch_calls' = fetch_calls
          /\ remember_log' = remember_log
          /\ add_log' = add_log
          /\ builder' = builder

\* C30: within one call of process() the sink's write is called at most once,
\* only after the loop has stopped normally, and nothing follows it: no
\* fetch_page, try_remember or add_note call comes after the write.
C30_WriteOnceAndLast == []C30_AfterWrite /\ [][C30_WriteStep]_vars

\* Two pages were fetched, two cards added, and then the output was written.
C30_Witness ==
    /\ write_calls = 1
    /\ Fetches = 2
    /\ Len(add_log) = 2
    /\ trace[Len(trace) - 1].op = "write"

\* ------------------------------------------ the JsonGenerator on its own
\* The number of add_card calls made on one generator
MaxOffers == 4

\* JsonGenerator::new(), without the clock
NewGenerator == [cards |-> <<>>, existing_words |-> {}, duplicate_count |-> 0]

\* add_card that forgets to count the card it rejects
GeneratorAddCardUncounted(g, card) ==
    IF card.word \in g.existing_words
    THEN [generator |-> g, ret |-> "false"]
    ELSE [generator |-> [g EXCEPT !.cards = Append(@, card),
                                  !.existing_words = @ \cup {card.word}],
          ret |-> "true"]

\* JsonGenerator::add_card
GeneratorAddCard(g, card) ==
    IF card.word \in g.existing_words
    THEN [generator |-> [g EXCEPT !.duplicate_count = @ + 1], ret |-> "false"]
    ELSE [generator |-> [g EXCEPT !.cards = Append(@, card),
                                  !.existing_words = @ \cup {card.word}],
          ret |-> "true"]

\* JsonGenerator::stats, without the elapsed time
GeneratorStats(g) == [total_cards |-> Len(g.cards), duplicates |-> g.duplicate_count]

\* The cards of test_stats and one of a third word
GeneratorCards ==
    SinkCards \cup
    { [word |-> "world", translation |-> "mundo", example |-> None, status |-> "New"] }

InitGenerator ==
    /\ generator = Some(NewGenerator)
    /\ runs = <<>>
    /\ deck_id = TestDeckId
    /\ pc = "generator"
    /\ AtRest

\* generator.add_card(card)
AddCardCall ==
    /\ pc = "generator"
    /\ Len(add_log) < MaxOffers
    /\ \E card \in GeneratorCards :
         LET a == GeneratorAddCard(generator[1], card)
         IN  /\ generator' = Some(a.generator)
             /\ add_log' = Append(add_log, [word |-> card.word, card |-> card, ret |-> a.ret])
             /\ ret' = Some(a.ret)
    /\ UNCHANGED <<config, runs, trace, env, processor_built, http_requests, pc, cursor, page_count,
                   response, cards, processed_words, stats, builder, result, fetched,
                   fetch_calls, remember_log, write_calls, write_ret, written, fail_stage>>

NextGenerator == AddCardCall

SpecGenerator == InitGenerator /\ [][NextGenerator]_vars

\* The add_card calls that returned r
OffersReturning(r) == {i \in 1..Len(add_log) : add_log[i].ret = r}

\* C27: after any sequence of add_card calls stats().total_cards is the number of
\* distinct words offered and stats().duplicates the number of calls rejected as
\* duplicates, so the two add up to the number of add_card calls.
C27_GeneratorStats ==
    generator # None =>
        LET st == GeneratorStats(generator[1])
        IN  /\ st.total_cards = Cardinality(Range(AddedWords))
            /\ st.duplicates = Cardinality(OffersReturning("false"))
            /\ st.total_cards + st.duplicates = Len(add_log)
            /\ \A i \in 1..Len(add_log) :
                  (add_log[i].ret = "false") <=>
                      (\E j \in 1..(i - 1) : add_log[j].word = add_log[i].word)

\* The calls of test_stats: hello, hello again, goodbye.
C27_Witness ==
    /\ generator # None
    /\ Len(add_log) = 3
    /\ add_log[1].word = "hello" /\ add_log[2].word = "hello" /\ add_log[3].word = "goodbye"
    /\ GeneratorStats(generator[1]) = [total_cards |-> 2, duplicates |-> 1]

\* ------------------------------------------------- two processors side by side
\* A source that answers the fetches from a script, as the tests' client does
\* (TestDuocardsClient::fetch_page), and a JSON sink for each processor.
PairEdges ==
    LET hello == CHOOSE c \in SourceCards : c.front = "hello"
        world == CHOOSE c \in SourceCards : c.front = "world"
    IN  {<<>>, <<hello>>, <<world>>, <<hello, world>>, <<hello, hello>>}

PairPage(e, h) == [edges |-> e, has_next_page |-> h, end_cursor |-> Some("cursor1")]

\* The scripts: every page but the last announces a next page
PairScripts ==
    UNION { { [i \in 1..k |-> PairPage(es[i], i < k)] : es \in [1..k -> PairEdges] } :
            k \in 1..MaxPages }

\* A script the second processor may be given whatever the first one reads
OtherScript ==
    LET hello == CHOOSE c \in SourceCards : c.front = "hello"
        world == CHOOSE c \in SourceCards : c.front = "world"
    IN  <<PairPage(<<world, hello>>, FALSE)>>

PairLimits == {None, Some(1)}

\* TransferProcessor::new(client, deck_id).output(builder, path): the fields of
\* a new TransferProcessorWithBuilder, with the script and limit of its client
StartRun(script, limit) ==
    [script          |-> script,
     page_limit      |-> limit,
     pc              |-> "loop",
     cursor          |-> None,
     page_count      |-> 0,
     fetches         |-> 0,
     response        |-> None,
     cards           |-> <<>>,
     processed_words |-> {},
     stats           |-> [total_cards |-> 0, duplicates |-> 0],
     builder         |-> NewBuilder,
     add_log         |-> <<>>,
     result          |-> "Running"]

\* One DuplicateHandler that all processors consult
HandlerOfShared(rs, i) == UNION {rs[j].processed_words : j \in 1..Len(rs)}

\* self.duplicates: the handler built by output() for this processor
HandlerOf(rs, i) == rs[i].processed_words

\* One TransferStats, the first processor's, that all processors count in
CountersOfFirst(rs, i) == rs[1].stats

\* self.stats: the counters built by output() for this processor
CountersOf(rs, i) == rs[i].stats

\* One step of process() in processor i of rs
RunStep(rs, i) ==
    LET r == rs[i]
    IN  CASE r.pc = "loop" ->
               [r EXCEPT !.page_count = @ + 1,
                         !.pc = PcAfterLimitCheck(r.page_limit, r.page_count + 1)]
          [] r.pc = "sleep" -> [r EXCEPT !.pc = "fetch"]
          [] r.pc = "fetch" ->
               LET resp == r.script[r.fetches + 1]
               IN  [r EXCEPT !.fetches = @ + 1,
                             !.response = Some(resp),
                             !.cards = ConvertToVocabularyCards(resp),
                             !.pc = "cards"]
          [] r.pc = "cards" /\ r.cards # <<>> ->
               LET card == Head(r.cards)
                   t    == TryRemember(HandlerOf(rs, i), card.word)
               IN  IF t.dup
                   THEN [r EXCEPT !.cards = Tail(@),
                                  !.processed_words = t.processed_words,
                                  !.stats = StatsAfterDuplicate(CountersOf(rs, i))]
                   ELSE LET a == AddNote("Json", r.builder, card, TRUE)
                        IN  [r EXCEPT !.cards = Tail(@),
                                      !.processed_words = t.processed_words,
                                      !.builder = a.builder,
                                      !.add_log = Append(@, card),
                                      !.stats = StatsAfterAdd(CountersOf(rs, i), a.ret),
                                      !.pc = PcAfterAdd(a.ret)]
          [] r.pc = "cards" /\ r.cards = <<>> ->
               IF StopAfterPage(r.response[1])
               THEN [r EXCEPT !.pc = "write"]
               ELSE [r EXCEPT !.cursor = NextCursor(r.response[1]), !.pc = "loop"]
          [] r.pc = "write" ->
               [r EXCEPT !.result = WriteOutputResult(
                                        BuilderWrite("Json", r.builder, "Writer", TRUE).ret),
                         !.pc = "done"]
          [] OTHER -> r

InitPair ==
    /\ generator = None
    /\ \E s1 \in PairScripts, l1 \in PairLimits, l2 \in PairLimits :
         \E s2 \in {s1, OtherScript} :
            runs = <<StartRun(s1, l1), StartRun(s2, l2)>>
    /\ deck_id = TestDeckId
    /\ pc = "pair"
    /\ AtRest

\* The scheduler lets one of the two processors take its next step
PairStep ==
    /\ pc = "pair"
    /\ \E i \in 1..Len(runs) :
         /\ runs[i].pc # "done"
         /\ runs' = [runs EXCEPT ![i] = RunStep(runs, i)]
    /\ UNCHANGED <<config, generator, trace, outside, http_requests, pc, cursor, page_count,
                   response, cards, processed_words, stats, builder, result, fetched,
                   fetch_calls, remember_log, add_log, write_calls, write_ret, written,
                   fail_stage>>

NextPair == PairStep

SpecPair == InitPair /\ [][NextPair]_vars

\* What a processor has to show when process() has returned
Outcome(r) ==
    [total_cards |-> r.stats.total_cards,
     duplicates  |-> r.stats.duplicates,
     passed      |-> r.add_log,
     sink        |-> r.builder.cards,
     result      |-> r.result]

\* The processor run to its end with nothing beside it
RECURSIVE RunAlone(_)
RunAlone(r) == IF r.pc = "done" THEN r ELSE RunAlone(RunStep(<<r>>, 1))

BothDone == runs # <<>> /\ \A i \in 1..Len(runs) : runs[i].pc = "done"

SameInput ==
    /\ runs # <<>>
    /\ runs[1].script = runs[2].script
    /\ runs[1].page_limit = runs[2].page_limit

C22_OwnOutcome ==
    \A i \in 1..Len(runs) :
        runs[i].pc = "done" =>
            Outcome(runs[i]) = Outcome(RunAlone(StartRun(runs[i].script, runs[i].page_limit)))

C22_OwnStep ==
    \A i \in 1..Len(runs) :
        runs'[i] # runs[i] =>
            /\ \A j \in 1..Len(runs) : j # i => runs'[j] = runs[j]
            /\ runs'[i] = RunStep(<<runs[i]>>, 1)

C32_Pages ==
    /\ \A k \in 1..Len(fetched) :
          /\ k < fetch_calls => fetched[k].has_next_page
          /\ ~fetched[k].has_next_page => k = fetch_calls
    /\ \A k \in 1..(Len(FetchPageCalls) - 1) :
          fetched[k].end_cursor = None => FetchPageCalls[k + 1] = FetchPageCalls[1]
    /\ (LoopEnded /\ ~LimitStop) => ~fetched[Len(fetched)].has_next_page

C32_PageEndStep ==
    (pc = "cards" /\ cards = <<>>) =>
        /\ pc' = (IF response[1].has_next_page THEN "loop" ELSE "write")
        /\ response[1].has_next_page => cursor' = response[1].end_cursor

\* C32: whether the loop goes on after a page depends on has_next_page (and the
\* page limit) alone, not on end_cursor: a page with has_next_page = false ends
\* the loop though it carries a cursor, and after a page with has_next_page =
\* true and no end_cursor the next fetch is made with cursor None, the request
\* of the first page.
C32_ContinuationIgnoresCursor == []C32_Pages /\ [][C32_PageEndStep]_vars

\* A first page without cursor announced a next page, the second page carried a
\* cursor and announced none; the second fetch repeated the first request.
C32_Witness ==
    /\ LoopEnded
    /\ Len(fetched) = 2
    /\ fetched[1].has_next_page /\ fetched[1].end_cursor = None
    /\ ~fetched[2].has_next_page /\ fetched[2].end_cursor # None
    /\ FetchPageCalls[2] = FetchPageCalls[1]

\* ------------------------------------------------ the sink and the dedup set
\* The words the sink accepted in this run
AcceptedWords == {add_log[i].word : i \in {k \in 1..Len(add_log) : add_log[k].ret = "true"}}

\* The words on which add_note failed
FailedWords ==
    {add_log[i].word : i \in {k \in 1..Len(add_log) : add_log[k].ret \notin {"true", "false"}}}

\* C33: in every state of a run the words the sink has accepted are a subset of
\* the DuplicateHandler's set; the sets are equal when the sink has neither
\* rejected nor failed on a record; a word whose add_note failed is in the dedup
\* set and not in the sink.
C33_SinkWithinDedupSet ==
    /\ AcceptedWords \subseteq processed_words
    /\ builder.existing_words = initial_builder.existing_words \cup AcceptedWords
    /\ initial_builder = NewBuilder => builder.existing_words \subseteq processed_words
    /\ (\A i \in 1..Len(add_log) : add_log[i].ret = "true") => AcceptedWords = processed_words
    /\ \A w \in FailedWords : w \in processed_words /\ w \notin builder.existing_words

\* The Anki sink accepted one word and failed on the next.
C33_Witness ==
    /\ builder_kind = "Anki"
    /\ initial_builder = NewBuilder
    /\ fail_stage = "add"
    /\ AcceptedWords # {}
    /\ FailedWords # {}
    /\ builder.existing_words # processed_words

\* ------------------------------------------------------ what the pause leaves
C35_PauseStep ==
    (pc = "sleep" \/ (Len(trace') > Len(trace) /\ trace'[Len(trace')].op = "sleep")) =>
        /\ pc = "sleep" /\ pc' = "fetch"
        /\ processed_words' = processed_words
        /\ stats' = stats
        /\ cursor' = cursor
        /\ builder' = builder
        /\ cards' = cards /\ response' = response /\ page_count' = page_count

\* C35: the pause between pages touches no pipeline state: dedup set, counters,
\* cursor and the sink's contents are the same before and after it.
C35_PauseFrame == [][C35_PauseStep]_vars

\* Just after a pause, with a cursor, remembered words and cards in the sink.
C35_Witness ==
    /\ pc = "fetch"
    /\ trace # <<>> /\ trace[Len(trace)].op = "sleep"
    /\ cursor # None
    /\ processed_words # {}
    /\ builder.cards # <<>>
    /\ stats.total_cards >= 1

\* -------------------------------------------- write_output called once more
\* The number of write_output calls made on one processor
MaxWrites == 2

\* processor.write_output() called by the owner of the processor after
\* process() has returned, as the tests do
WriteOutputAgain ==
    /\ pc = "done"
    /\ write_calls < MaxWrites
    /\ \E io_ok \in BOOLEAN :
         LET w == BuilderWrite(builder_kind, builder, Destination(output_path), io_ok)
         IN  /\ write_ret' = w.ret
             /\ written' = w.out
             /\ env' = Append(env, io_ok)
             /\ ret' = Some(WriteOutputResult(w.ret))
             /\ trace' = Append(trace, [op |-> "write", dest |-> WriteDestination(output_path)])
    /\ write_calls' = write_calls + 1
    /\ UNCHANGED <<config, elsewhere, processor_built, http_requests, pc, cursor, page_count,
                   response, cards, processed_words, stats, builder, result, fetched,
                   fetch_calls, remember_log, add_log, fail_stage>>

NextRewrite == Next \/ WriteOutputAgain

SpecRewrite == Init /\ [][NextRewrite]_vars

C34_WriteStep ==
    write_calls' # write_calls =>
        /\ builder' = builder
        /\ processed_words' = processed_words
        /\ stats' = stats
        /\ cursor' = cursor /\ page_count' = page_count
        /\ (written # None /\ written' # None) => written' = written
        /\ written' # None => written' = Some(builder.cards)

\* C34: write_output changes no pipeline state: the sink's accepted cards, the
\* dedup set and both counters are the same before and after it, whether it
\* succeeds or fails, so a second write_output after process() serializes the
\* same content.
C34_WriteOutputFrame == [][C34_WriteStep]_vars

\* process() wrote a sink of two cards, and write_output, called again, wrote
\* the same two cards.
C34_Witness ==
    /\ write_calls = 2
    /\ result = "Ok"
    /\ Len(builder.cards) = 2
    /\ written = Some(builder.cards)
    /\ stats.total_cards = 2

\* ------------------------------------------------- the destination of the write
\* The destinations handed to builder.write, in call order
WriteDestinations ==
    LET writes == SelectSeq(trace, LAMBDA e : e.op = "write")
    IN  [i \in 1..Len(writes) |-> writes[i].dest]

\* C36: write_output hands the sink the stdout Writer exactly when the output
\* path is "-", and otherwise a File destination with that path; so an Anki
\* sink with path "-" fetches and accumulates all pages and then fails in the
\* write with AnkiOutputNotSupported, and nothing is written.
C36_DestinationFromPath ==
    /\ \A i \in 1..Len(WriteDestinations) :
          /\ (WriteDestinations[i] = <<"Writer">>) <=> (output_path = "-")
          /\ output_path # "-" => WriteDestinations[i] = <<"File", output_path>>
    /\ (builder_kind = "Anki" /\ output_path = "-") =>
          /\ written = None
          /\ result # "Ok"
          /\ TraceAt("print_stats") = {}
          /\ (pc = "done" /\ fail_stage \in {"none", "write"}) =>
                /\ write_calls = 1
                /\ StoppedNormally
                /\ RememberedWords = FetchedWords
                /\ Len(builder.cards) = Len(initial_builder.cards) + CountRet(add_log, "true")
                /\ write_ret = "AnkiOutputNotSupported"
                /\ result = "AnkiOutputNotSupported"
                /\ fail_stage = "write"

\* An Anki run with path "-" fetched two pages, accepted two cards and failed in
\* the write.
C36_Witness ==
    /\ builder_kind = "Anki"
    /\ output_path = "-"
    /\ Len(fetched) = 2
    /\ Len(builder.cards) = 2
    /\ write_calls = 1
    /\ result = "AnkiOutputNotSupported"

\* ------------------------------------------- the conversion called on its own
\* The largest known_count tried, beside the ends of i32
MaxKnown == 6

\* known_count: i32
KnownCounts == ((0 - MaxKnown)..MaxKnown) \cup {0 - 2147483647 - 1, 2147483647}

\* The Card nodes handed to the conversion
ConvertCards ==
    { [front |-> f.front, back |-> f.back, hint |-> h, known_count |-> k] :
        f \in {[front |-> "hello", back |-> "hola"], [front |-> "world", back |-> "mundo"]},
        h \in {None, Some("Hello, world!")},
        k \in KnownCounts }

ConvertInputs ==
    { [edges |-> e, has_next_page |-> FALSE, end_cursor |-> None] :
        e \in SeqsUpTo(ConvertCards, MaxCards) }

InitConvert ==
    /\ ElsewhereAtRest
    /\ deck_id = TestDeckId
    /\ pc = "convert_to_vocabulary_cards"
    /\ AtRest

\* client.convert_to_vocabulary_cards(&response)
ConvertCall ==
    /\ pc = "convert_to_vocabulary_cards"
    /\ \E resp \in ConvertInputs :
         /\ response' = Some(resp)
         /\ cards' = ConvertToVocabularyCards(resp)
    /\ pc' = "returned"
    /\ UNCHANGED <<config, elsewhere, trace, outside, http_requests, cursor, page_count,
                   processed_words, stats, builder, result, fetched, fetch_calls,
                   remember_log, add_log, write_calls, write_ret, written, fail_stage>>

NextConvert == ConvertCall

SpecConvert == InitConvert /\ [][NextConvert]_vars

\* C37: the conversion of a Card maps known_count to the status by thresholds,
\* known_count >= 5 to Known, 1..4 to Learning, zero and every negative value to
\* New; word, translation and example are front, back and hint unchanged, and
\* the cards come in the order of the page's records.
C37_StatusThresholds ==
    pc = "returned" =>
        LET edges == response[1].edges
        IN  /\ Len(cards) = Len(edges)
            /\ \A i \in 1..Len(edges) :
                  /\ cards[i].word = edges[i].front
                  /\ cards[i].translation = edges[i].back
                  /\ cards[i].example = edges[i].hint
                  /\ edges[i].known_count >= 5 => cards[i].status = "Known"
                  /\ edges[i].known_count \in 1..4 => cards[i].status = "Learning"
                  /\ edges[i].known_count <= 0 => cards[i].status = "New"

\* A page of a record counted four times and one counted five times.
C37_Witness ==
    /\ pc = "returned"
    /\ Len(cards) = 2
    /\ response[1].edges[1].known_count = 4 /\ cards[1].status = "Learning"
    /\ response[1].edges[2].known_count = 5 /\ cards[2].status = "Known"
    /\ cards[1].word # cards[2].word

\* ----------------------------------------------- the --pages argument
\* The length of the --pages values tried, beside the long ones listed below
MaxArgLen == 3

Digits == <<"0", "1", "2", "3", "4", "5", "6", "7", "8", "9">>

IsDigit(ch) == \E d \in 1..Len(Digits) : Digits[d] = ch

DigitValue(ch) == (CHOOSE d \in 1..Len(Digits) : Digits[d] = ch) - 1

\* A u32 as two 16-bit halves, hi * 65536 + lo
U32Zero == [hi |-> 0, lo |-> 0]

\* checked_mul(10) and checked_add(digit) on a u32: None on overflow
CheckedMulAdd(v, d) ==
    LET low  == v.lo * 10 + d
        high == v.hi * 10 + (low \div 65536)
    IN  IF high >= 65536 THEN None ELSE Some([hi |-> high, lo |-> low % 65536])

RECURSIVE ParseDigits(_, _)
ParseDigits(v, s) ==
    IF s = <<>> THEN Some(v)
    ELSE IF ~IsDigit(Head(s)) THEN None
    ELSE LET next == CheckedMulAdd(v, DigitValue(Head(s)))
         IN  IF next = None THEN None ELSE ParseDigits(next[1], Tail(s))

\* str::parse::<u32>: an optional "+", then one or more decimal digits, no
\* sign "-", no blanks, no overflow
ParseU32(s) ==
    IF s = <<>> THEN None
    ELSE LET digits == IF Head(s) = "+" THEN Tail(s) ELSE s
         IN  IF digits = <<>> THEN None ELSE ParseDigits(U32Zero, digits)

\* validate_page_limit that lets zero through
ValidatePageLimitAllowingZero(s) ==
    LET parsed == ParseU32(s)
    IN  IF parsed = None
        THEN [ok |-> FALSE, n |-> U32Zero, err |-> "Page limit must be a valid positive integer"]
        ELSE [ok |-> TRUE, n |-> parsed[1], err |-> ""]

\* validate_page_limit
ValidatePageLimit(s) ==
    LET parsed == ParseU32(s)
    IN  IF parsed = None
        THEN [ok |-> FALSE, n |-> U32Zero, err |-> "Page limit must be a valid positive integer"]
        ELSE IF parsed[1] # U32Zero
        THEN [ok |-> TRUE, n |-> parsed[1], err |-> ""]
        ELSE [ok |-> FALSE, n |-> U32Zero, err |-> "Page limit must be a positive integer"]

\* u32::MAX in decimal
U32Max == <<"4", "2", "9", "4", "9", "6", "7", "2", "9", "5">>

ArgChars == {"0", "1", "9", "+", "-", "a", " "}

\* Values around u32::MAX and i32::MAX, with leading zeros, and too long
LongArgs ==
    { U32Max,
      <<"4", "2", "9", "4", "9", "6", "7", "2", "9", "6">>,
      <<"2", "1", "4", "7", "4", "8", "3", "6", "4", "8">>,
      <<"0", "0", "0", "0", "0", "0", "0", "0", "0", "4", "2">>,
      <<"0", "0", "0", "0">>,
      <<"9", "9", "9", "9", "9", "9", "9", "9", "9", "9", "9">>,
      <<"-", "4", "2", "9", "4", "9", "6", "7", "2", "9", "5">> }

\* The values given to --pages
PageArgs == SeqsUpTo(ArgChars, MaxArgLen) \cup LongArgs

\* The limit as a number, when it is below 2^31
FitsInt(v) == v.hi < 32768

ToInt(v) == v.hi * 65536 + v.lo

InitCli ==
    /\ ElsewhereAtRest
    /\ deck_id = TestDeckId
    /\ pc = "validate_page_limit"
    /\ AtRest

\* Args::parse() runs validate_page_limit on the value of --pages; main hands
\* an accepted limit to the client, and process() starts
ValidatePageLimitCall ==
    /\ pc = "validate_page_limit"
    /\ \E s \in PageArgs :
         LET v == ValidatePageLimit(s)
         IN  /\ ret' = Some([arg |-> s, ok |-> v.ok, n |-> v.n, err |-> v.err])
             /\ IF v.ok /\ FitsInt(v.n)
                THEN /\ page_limit' = Some(ToInt(v.n))
                     /\ pc' = "loop"
                ELSE /\ page_limit' = page_limit
                     /\ pc' = IF v.ok THEN "accepted" ELSE "exit"
    /\ UNCHANGED <<builder_kind, output_path, initial_builder, deck_id, elsewhere, trace, env,
                   processor_built, http_requests, cursor, page_count, response, cards,
                   processed_words, stats, builder, result, fetched, fetch_calls,
                   remember_log, add_log, write_calls, write_ret, written, fail_stage>>

NextCli == ValidatePageLimitCall \/ LoopHead

SpecCli == InitCli /\ [][NextCli]_vars

\* s without its leading zeros
RECURSIVE StripZeros(_)
StripZeros(s) == IF s # <<>> /\ Head(s) = "0" THEN StripZeros(Tail(s)) ELSE s

\* a <= b for two digit texts of the same length
RECURSIVE DigitsLeq(_, _)
DigitsLeq(a, b) ==
    IF a = <<>> THEN TRUE
    ELSE IF DigitValue(Head(a)) # DigitValue(Head(b))
    THEN DigitValue(Head(a)) < DigitValue(Head(b))
    ELSE DigitsLeq(Tail(a), Tail(b))

\* The text is a decimal numeral, with or without "+", of a number in 1..2^32 - 1
DenotesPositiveU32(s) ==
    /\ s # <<>>
    /\ LET digits == IF Head(s) = "+" THEN Tail(s) ELSE s
           sig    == StripZeros(digits)
       IN  /\ digits # <<>>
           /\ \A i \in 1..Len(digits) : IsDigit(digits[i])
           /\ sig # <<>>
           /\ Len(sig) < Len(U32Max) \/ (Len(sig) = Len(U32Max) /\ DigitsLeq(sig, U32Max))

\* C38: the command line accepts a page limit only if it parses as an unsigned
\* 32-bit integer greater than zero; 0, negative and non-numeric values are
\* rejected; so the first limit check of a run started with a limit lets the
\* first fetch happen.
C38_CliLimitPositive ==
    /\ ret # None =>
          /\ ret[1].ok <=> DenotesPositiveU32(ret[1].arg)
          /\ ret[1].ok => ret[1].n # U32Zero /\ ret[1].err = ""
          /\ ~ret[1].ok => ret[1].err # ""
          /\ (ret[1].arg # <<>> /\ Head(ret[1].arg) = "-") => ~ret[1].ok
          /\ StripZeros(ret[1].arg) = <<>> => ~ret[1].ok
    /\ page_limit # None => page_limit[1] >= 1 /\ page_limit[1] = ToInt(ret[1].n)
    /\ page_count >= 1 => pc = "fetch"

\* "+1" was accepted as the limit 1 and the first limit check led to the fetch.
C38_Witness ==
    /\ ret # None
    /\ ret[1].arg = <<"+", "1">>
    /\ page_limit = Some(1)
    /\ page_count = 1
    /\ pc = "fetch"

\* ------------------------------------- a source that never runs out of pages
\* The pages of a source that may announce a next page for ever and may repeat
\* its cursor: any flag and any cursor on every page
EndlessResponses == {r \in Responses(FALSE) : Len(r.edges) <= 1}

\* client.with_page_limit(n), or no limit
EndlessLimits == {None} \cup {Some(n) : n \in 0..MaxPages}

InitEndless ==
    /\ ElsewhereAtRest
    /\ page_limit \in EndlessLimits
    /\ builder_kind \in BuilderKinds
    /\ output_path \in OutputPaths
    /\ initial_builder = NewBuilder
    /\ deck_id = TestDeckId
    /\ processor_built = TRUE
    /\ pc = "loop"
    /\ ProcessStart

\* fetch_page(&self.deck_id, cursor) returned Ok(response); the model follows a
\* run for MaxPages fetches, which no run with a limit exceeds
FetchFromEndless ==
    /\ pc = "fetch"
    /\ fetch_calls < MaxPages
    /\ trace' = Append(trace, FetchPageCall(deck_id, cursor))
    /\ ClientVerdict[deck_id] = "Ok"
    /\ http_requests' = http_requests + 1
    /\ \E resp \in EndlessResponses :
         /\ response' = Some(resp)
         /\ cards' = ConvertToVocabularyCards(resp)
         /\ fetched' = Append(fetched, resp)
    /\ fetch_calls' = fetch_calls + 1
    /\ pc' = "cards"
    /\ UNCHANGED <<config, elsewhere, outside, cursor, page_count, processed_words, stats, builder, result,
                   remember_log, add_log, write_calls, write_ret, written, fail_stage>>

NextEndless ==
    \/ LoopHead
    \/ Sleep
    \/ FetchFromEndless
    \/ FetchErr
    \/ ProcessCard
    \/ PageEnd
    \/ WriteOutput

\* process() is one task that is run to its end: the sleep ends, every call
\* returns, and the next step is taken
SpecEndless == InitEndless /\ [][NextEndless]_vars /\ WF_vars(NextEndless)

\* process() has returned
Returned == pc = "done"

SomePageWasLast == \E k \in 1..Len(fetched) : ~fetched[k].has_next_page

C31_AtMostLimitFetches == page_limit # None => fetch_calls <= page_limit[1]

C31_NoLimitEndsOnlyWhenToldOrFailed ==
    (page_limit = None /\ Returned) =>
        (fail_stage \in {"fetch", "add"} \/ SomePageWasLast)

\* C31 (amended): with a page limit N every run returns, Ok or Err, after at
\* most N fetches, whatever the source reports (has_next_page = true for ever,
\* the same cursor again); with no limit a run returns only if a fetch fails, an
\* add_note call fails, or a page reports has_next_page = false.
C31_TerminatesWithinLimit ==
    /\ (page_limit # None) => <>Returned
    /\ []C31_AtMostLimitFetches
    /\ []C31_NoLimitEndsOnlyWhenToldOrFailed

\* C31 as stated: with no limit a run returns only if a fetch failed or a page
\* reported has_next_page = false.
C31_NoLimitEndsOnlyOnFetchOrLastPage ==
    (page_limit = None /\ Returned) => (fail_stage = "fetch" \/ SomePageWasLast)

\* A run with limit MaxPages read that many pages, all announcing a next page
\* with the same cursor, and returned Ok.
C31_Witness ==
    /\ page_limit = Some(MaxPages)
    /\ Returned
    /\ result = "Ok"
    /\ fetch_calls = MaxPages
    /\ \A k \in 1..Len(fetched) : fetched[k].has_next_page /\ fetched[k].end_cursor = fetched[1].end_cursor
====
